---- MODULE Spec2Model ----
(***************************************************************************)
(* A model of mcp-giantswarm-apps: the resource-URI addressing layer, the  *)
(* entity mapper between untyped trees and typed records, the resource     *)
(* clients on top of the Kubernetes API and the tool handlers.             *)
(*                                                                         *)
(* Go strings that the code takes apart (URIs) are sequences of            *)
(* one-character strings; names that the code only compares are strings.   *)
(***************************************************************************)
EXTENDS Integers, Sequences, FiniteSets, TLC

VARIABLES
    \* resource-URI addressing (SpecURI)
    uri,      \* the string handed to ParseResourceURI
    loc,      \* what ParseResourceURI returned for uri
    str,      \* String() of the parsed locator
    loc2,     \* what ParseResourceURI returned for str
    upc,      \* position: "start", "parsed", "failed", "printed", "done"
    \* the Kubernetes API server and the invocation made against it
    namespaces, \* the Namespace objects, in the order the server lists them
    objects,    \* custom resources: <<kind, namespace, name>> -> untyped tree
    cfg,        \* ConfigMaps and Secrets: <<type, namespace, name>> -> object
    inv,        \* the last invocation: operation, arguments, API calls, result
    \* the mappers and the config values, applied on their own
    arg,      \* the input a function is applied to
    res,      \* what the function returned for arg
    fpc       \* position: "idle", "start", "done"

uriVars == <<uri, loc, str, loc2, upc>>
apiVars == <<namespaces, objects, cfg, inv>>
funVars == <<arg, res, fpc>>

\* the values of the variables that a specification does not use
FunIdle == arg = <<>> /\ res = <<>> /\ fpc = "idle"
URIIdle == uri = <<>> /\ loc = <<>> /\ str = <<>> /\ loc2 = <<>> /\ upc = "idle"
APIIdle == namespaces = <<>> /\ objects = <<>> /\ cfg = <<>> /\ inv = <<>>

(***************************************************************************)
(* Bounds                                                                  *)
(***************************************************************************)
\* longest path (the part after "://") of an input URI, in characters
MaxPathLen == 5

\* highest resourceVersion the server hands out
MaxRV == 2

(***************************************************************************)
(* Strings                                                                 *)
(***************************************************************************)
AppS == <<"a", "p", "p">>
CatalogS == <<"c", "a", "t", "a", "l", "o", "g">>
ConfigS == <<"c", "o", "n", "f", "i", "g">>
SchemaS == <<"s", "c", "h", "e", "m", "a">>
ChangelogS == <<"c", "h", "a", "n", "g", "e", "l", "o", "g">>
ValuesS == <<"v", "a", "l", "u", "e", "s">>
SchemeSep == <<":", "/", "/">>
Slash == <<"/">>

\* the first index at which sep occurs in s, 0 when it does not (strings.Index + 1)
IndexOf(s, sep) ==
    LET hits == {i \in 1..(Len(s) - Len(sep) + 1) : SubSeq(s, i, i + Len(sep) - 1) = sep}
    IN  IF hits = {} THEN 0 ELSE CHOOSE i \in hits : \A j \in hits : i <= j

\* strings.SplitN(s, sep, 2)
SplitN2(s, sep) ==
    LET i == IndexOf(s, sep)
    IN  IF i = 0 THEN <<s>>
        ELSE <<SubSeq(s, 1, i - 1), SubSeq(s, i + Len(sep), Len(s))>>

\* strings.Split(s, "/"): one more part than there are separators
RECURSIVE Split(_)
Split(s) ==
    LET i == IndexOf(s, Slash)
    IN  IF i = 0 THEN <<s>>
        ELSE <<SubSeq(s, 1, i - 1)>> \o Split(SubSeq(s, i + 1, Len(s)))

\* strings.Split(s, sep) for a separator of one character
RECURSIVE SplitBy(_, _)
SplitBy(s, sep) ==
    LET i == IndexOf(s, sep)
    IN  IF i = 0 THEN <<s>>
        ELSE <<SubSeq(s, 1, i - 1)>> \o SplitBy(SubSeq(s, i + 1, Len(s)), sep)

\* strings.TrimSpace(s)
RECURSIVE TrimSpace(_)
TrimSpace(s) ==
    IF s # <<>> /\ Head(s) = " " THEN TrimSpace(Tail(s))
    ELSE IF s # <<>> /\ s[Len(s)] = " " THEN TrimSpace(SubSeq(s, 1, Len(s) - 1))
    ELSE s

\* strings.Join(parts, "/")
RECURSIVE Join(_)
Join(parts) ==
    IF Len(parts) = 0 THEN <<>>
    ELSE IF Len(parts) = 1 THEN parts[1]
    ELSE parts[1] \o Slash \o Join(Tail(parts))

(***************************************************************************)
(* ResourceURI, ParseResourceURI and String                                *)
(***************************************************************************)
ResourceTypeApp == "app"
ResourceTypeCatalog == "catalog"
ResourceTypeConfig == "config"
ResourceTypeSchema == "schema"
ResourceTypeChangelog == "changelog"

\* the zero ResourceURI of a type; isNil marks the nil pointer returned with an error
ResourceURI(type) ==
    [isNil |-> FALSE, err |-> "", Type |-> type, Namespace |-> <<>>, Name |-> <<>>,
     Catalog |-> <<>>, Version |-> <<>>, SubPath |-> <<>>]

\* return nil, fmt.Errorf(msg)
ParseError(msg) == [ResourceURI("") EXCEPT !.isNil = TRUE, !.err = msg]

\* the switch on the scheme: the resource type, "" for the default branch
SchemeType(scheme) ==
    IF scheme = AppS THEN ResourceTypeApp
    ELSE IF scheme = CatalogS THEN ResourceTypeCatalog
    ELSE IF scheme = ConfigS THEN ResourceTypeConfig
    ELSE IF scheme = SchemaS THEN ResourceTypeSchema
    ELSE IF scheme = ChangelogS THEN ResourceTypeChangelog
    ELSE ""

\* a mutant of SegmentsOK: the fixed-length schemes only check for too few segments
SegmentsOKAtLeast(type, n) ==
    CASE type = ResourceTypeApp -> n >= 2
      [] type = ResourceTypeCatalog -> n >= 1
      [] type = ResourceTypeConfig -> n >= 2
      [] type = ResourceTypeSchema -> n >= 3
      [] type = ResourceTypeChangelog -> n >= 2
      [] OTHER -> FALSE

\* the len(pathParts) test of each case of the switch on the resource type
SegmentsOK(type, n) ==
    CASE type = ResourceTypeApp -> n = 2
      [] type = ResourceTypeCatalog -> n = 1
      [] type = ResourceTypeConfig -> n >= 2
      [] type = ResourceTypeSchema -> n = 3
      [] type = ResourceTypeChangelog -> n = 2
      [] OTHER -> FALSE

\* the message of the error each case returns
ShapeError(type) ==
    CASE type = ResourceTypeApp -> "invalid app resource path: expected namespace/name"
      [] type = ResourceTypeCatalog -> "invalid catalog resource path: expected name"
      [] type = ResourceTypeConfig -> "invalid config resource path: expected namespace/app/..."
      [] type = ResourceTypeSchema -> "invalid schema resource path: expected catalog/app/version"
      [] type = ResourceTypeChangelog -> "invalid changelog resource path: expected catalog/app"
      [] OTHER -> ""

\* the assignments of each case, for a path with an accepted number of parts
FillURI(type, pathParts) ==
    CASE type = ResourceTypeApp ->
           [ResourceURI(type) EXCEPT !.Namespace = pathParts[1], !.Name = pathParts[2]]
      [] type = ResourceTypeCatalog ->
           [ResourceURI(type) EXCEPT !.Name = pathParts[1]]
      [] type = ResourceTypeConfig ->
           [ResourceURI(type) EXCEPT
              !.Namespace = pathParts[1], !.Name = pathParts[2],
              !.SubPath = IF Len(pathParts) > 2
                          THEN Join(SubSeq(pathParts, 3, Len(pathParts)))
                          ELSE <<>>]
      [] type = ResourceTypeSchema ->
           [ResourceURI(type) EXCEPT
              !.Catalog = pathParts[1], !.Name = pathParts[2], !.Version = pathParts[3]]
      [] type = ResourceTypeChangelog ->
           [ResourceURI(type) EXCEPT !.Catalog = pathParts[1], !.Name = pathParts[2]]

ParseResourceURI(u) ==
    LET parts == SplitN2(u, SchemeSep)
    IN  IF Len(parts) # 2 THEN ParseError("invalid resource URI format")
        ELSE LET type == SchemeType(parts[1])
                 pathParts == Split(parts[2])
             IN  IF type = "" THEN ParseError("unknown resource type")
                 ELSE IF ~SegmentsOK(type, Len(pathParts)) THEN ParseError(ShapeError(type))
                 ELSE FillURI(type, pathParts)

\* a mutant of String: the app case drops the separator between namespace and name
StringNoSlash(r) ==
    CASE r.Type = ResourceTypeApp -> AppS \o SchemeSep \o r.Namespace \o r.Name
      [] r.Type = ResourceTypeCatalog -> CatalogS \o SchemeSep \o r.Name
      [] r.Type = ResourceTypeConfig ->
           ConfigS \o SchemeSep \o r.Namespace \o Slash \o r.Name \o Slash
             \o (IF r.SubPath # <<>> THEN r.SubPath ELSE ValuesS)
      [] r.Type = ResourceTypeSchema ->
           SchemaS \o SchemeSep \o r.Catalog \o Slash \o r.Name \o Slash \o r.Version
      [] r.Type = ResourceTypeChangelog ->
           ChangelogS \o SchemeSep \o r.Catalog \o Slash \o r.Name
      [] OTHER -> <<>>

\* (r *ResourceURI) String()
String(r) ==
    CASE r.Type = ResourceTypeApp -> AppS \o SchemeSep \o r.Namespace \o Slash \o r.Name
      [] r.Type = ResourceTypeCatalog -> CatalogS \o SchemeSep \o r.Name
      [] r.Type = ResourceTypeConfig ->
           ConfigS \o SchemeSep \o r.Namespace \o Slash \o r.Name \o Slash
             \o (IF r.SubPath # <<>> THEN r.SubPath ELSE ValuesS)
      [] r.Type = ResourceTypeSchema ->
           SchemaS \o SchemeSep \o r.Catalog \o Slash \o r.Name \o Slash \o r.Version
      [] r.Type = ResourceTypeChangelog ->
           ChangelogS \o SchemeSep \o r.Catalog \o Slash \o r.Name
      [] OTHER -> <<>>

(***************************************************************************)
(* SpecURI: a URI is parsed, printed and parsed again                      *)
(***************************************************************************)
PathChars == {"n", "/", ":"}
Paths == UNION {[1..k -> PathChars] : k \in 0..MaxPathLen}
\* what an input may carry before its path: a known scheme, an unknown one, none
Prefixes ==
    {s \o SchemeSep : s \in {AppS, CatalogS, ConfigS, SchemaS, ChangelogS, <<"x">>, <<>>}}
      \cup {<<>>, AppS \o <<":", "/">>}
URIInputs == {p \o q : p \in Prefixes, q \in Paths}

NoLoc == ParseError("")

InitURI ==
    /\ uri \in URIInputs
    /\ loc = NoLoc
    /\ str = <<>>
    /\ loc2 = NoLoc
    /\ upc = "start"
    /\ namespaces = <<>> /\ objects = <<>> /\ cfg = <<>> /\ inv = <<>>
    /\ FunIdle

\* ParseResourceURI(uri)
Parse ==
    /\ upc = "start"
    /\ loc' = ParseResourceURI(uri)
    /\ upc' = IF loc'.isNil THEN "failed" ELSE "parsed"
    /\ UNCHANGED <<uri, str, loc2, apiVars, funVars>>

\* loc.String()
Serialize ==
    /\ upc = "parsed"
    /\ str' = String(loc)
    /\ upc' = "printed"
    /\ UNCHANGED <<uri, loc, loc2, apiVars, funVars>>

\* ParseResourceURI(loc.String())
Reparse ==
    /\ upc = "printed"
    /\ loc2' = ParseResourceURI(str)
    /\ upc' = "done"
    /\ UNCHANGED <<uri, loc, str, apiVars, funVars>>

NextURI == Parse \/ Serialize \/ Reparse

vars == <<uriVars, apiVars, funVars>>

SpecURI == InitURI /\ [][NextURI]_vars

\* strings.HasPrefix(u, p)
HasPrefix(u, p) == Len(u) >= Len(p) /\ SubSeq(u, 1, Len(p)) = p

\* the characters of the names that the code takes apart or puts together
NameChars ==
    [a |-> <<"a">>, c1 |-> <<"c", "1">>, default |-> <<"d", "e", "f", "a", "u", "l", "t">>] @@
    ("org-a" :> <<"o", "r", "g", "-", "a">>) @@
    ("org-b" :> <<"o", "r", "g", "-", "b">>) @@ ("b" :> <<"b">>) @@ ("" :> <<>>) @@
    ("AWSCluster" :> <<"A", "W", "S", "C", "l", "u", "s", "t", "e", "r">>) @@
    ("Cluster" :> <<"C", "l", "u", "s", "t", "e", "r">>) @@ ("AWS" :> <<"A", "W", "S">>) @@
    ("acme" :> <<"a", "c", "m", "e">>) @@
    ("cat-x-1" :> <<"c", "a", "t", "-", "x", "-", "1">>) @@
    ("c1-kubeconfig" :> <<"c", "1", "-", "k", "u", "b", "e", "c", "o", "n", "f", "i", "g">>) @@
    ("c2-kubeconfig" :> <<"c", "2", "-", "k", "u", "b", "e", "c", "o", "n", "f", "i", "g">>) @@
    ("workload-c1" :> <<"w", "o", "r", "k", "l", "o", "a", "d", "-", "c", "1">>) @@
    ("app1" :> <<"a", "p", "p", "1">>) @@ ("app2" :> <<"a", "p", "p", "2">>) @@
    ("cat" :> <<"c", "a", "t">>) @@ ("1" :> <<"1">>) @@ ("2" :> <<"2">>) @@
    ("x" :> <<"x">>) @@ ("x-y" :> <<"x", "-", "y">>) @@
    ("1-rc" :> <<"1", "-", "r", "c">>) @@
    ("cat-x-2" :> <<"c", "a", "t", "-", "x", "-", "2">>) @@
    ("cat-x-y-1" :> <<"c", "a", "t", "-", "x", "-", "y", "-", "1">>) @@
    ("cat-x-1-rc" :> <<"c", "a", "t", "-", "x", "-", "1", "-", "r", "c">>)

\* the name with the given characters
NameOf(chars) == CHOOSE n \in DOMAIN NameChars : NameChars[n] = chars

(***************************************************************************)
(* Untyped trees (unstructured.Unstructured)                               *)
(*                                                                         *)
(* A node of a tree carries its dynamic type in t: "str", "bool", "int",   *)
(* "null", "map" (m: a function from keys to nodes), "list" (l: a sequence *)
(* of nodes) or "strmap" (sm: a Go map[string]string put into a tree as    *)
(* it is). A typed record's nil pointer is Nil; a nil and an empty slice   *)
(* are both <<>>, and so are a nil and an empty map[string]string.         *)
(***************************************************************************)
StrV(x) == [t |-> "str", s |-> x]
BoolV(x) == [t |-> "bool", b |-> x]
IntV(x) == [t |-> "int", i |-> x]

\* an int64 as its two 32-bit words, its value being hi * 2^32 + lo (lo < 2^31
\* in every value used here)
Int64(hi, lo) == [hi |-> hi, lo |-> lo]

\* the conversion int32(x) of an int64: the low word is kept
Int32(x) == x.lo
MapV(x) == [t |-> "map", m |-> x]
ListV(x) == [t |-> "list", l |-> x]
StrMapV(x) == [t |-> "strmap", sm |-> x]
NullV == [t |-> "null"]
\* a Go []string and an int32 put into a tree as they are
StringsV(x) == [t |-> "strings", ss |-> x]
Int32V(x) == [t |-> "int32", i |-> x]
Nil == [nil |-> TRUE]

\* whether m[k] is present with dynamic type t: the ok of v, ok := m[k].(T)
Is(m, k, type) == k \in DOMAIN m /\ m[k].t = type

\* if v, ok := m[k].(string); ok { x = v }, x being "" before
AsString(m, k) == IF Is(m, k, "str") THEN m[k].s ELSE ""

\* if v, ok := m[k].(bool); ok { x = v }, x being false before
AsBool(m, k) == IF Is(m, k, "bool") THEN m[k].b ELSE FALSE

\* the strings of a []interface{}, in order, its other elements skipped
StringsOf(l) ==
    LET strs == SelectSeq(l, LAMBDA n : n.t = "str")
    IN  [i \in 1..Len(strs) |-> strs[i].s]

\* unstructured.NestedMap(obj, key): not found for a missing key, an error for
\* a value that is not a map[string]interface{}
NestedMap(obj, k) ==
    IF k \notin DOMAIN obj THEN [val |-> <<>>, found |-> FALSE, err |-> FALSE]
    ELSE IF obj[k].t = "map" THEN [val |-> obj[k].m, found |-> TRUE, err |-> FALSE]
    ELSE [val |-> <<>>, found |-> FALSE, err |-> TRUE]

\* unstructured.NestedString(obj, "metadata", key): "" unless a string is there
MetaString(obj, k) ==
    IF Is(obj, "metadata", "map") THEN AsString(obj["metadata"].m, k) ELSE ""

\* obj.GetName(), obj.GetNamespace(), obj.GetResourceVersion()
GetName(obj) == MetaString(obj, "name")
GetNamespace(obj) == MetaString(obj, "namespace")
GetResourceVersion(obj) == MetaString(obj, "resourceVersion")

\* obj.GetLabels(): the labels when they are a map of strings, no labels otherwise
GetLabels(obj) ==
    IF Is(obj, "metadata", "map") /\ Is(obj["metadata"].m, "labels", "map")
       /\ \A k \in DOMAIN obj["metadata"].m["labels"].m :
              obj["metadata"].m["labels"].m[k].t = "str"
    THEN [k \in DOMAIN obj["metadata"].m["labels"].m |-> obj["metadata"].m["labels"].m[k].s]
    ELSE <<>>

\* obj.GetAnnotations(): as GetLabels, on metadata.annotations
GetAnnotations(obj) ==
    IF Is(obj, "metadata", "map") /\ Is(obj["metadata"].m, "annotations", "map")
       /\ \A k \in DOMAIN obj["metadata"].m["annotations"].m :
              obj["metadata"].m["annotations"].m[k].t = "str"
    THEN [k \in DOMAIN obj["metadata"].m["annotations"].m |->
            obj["metadata"].m["annotations"].m[k].s]
    ELSE <<>>

\* obj.SetResourceVersion(rv): an empty version removes the field
SetResourceVersion(obj, rv) ==
    LET meta == obj["metadata"].m
        meta2 == IF rv = ""
                 THEN [k \in DOMAIN meta \ {"resourceVersion"} |-> meta[k]]
                 ELSE [k \in DOMAIN meta \cup {"resourceVersion"} |->
                         IF k = "resourceVersion" THEN StrV(rv) ELSE meta[k]]
    IN  [k \in DOMAIN obj |-> IF k = "metadata" THEN MapV(meta2) ELSE obj[k]]

\* m with key k set to node v
Put(m, k, v) == [x \in DOMAIN m \cup {k} |-> IF x = k THEN v ELSE m[x]]

(***************************************************************************)
(* App: typed record and mapper                                            *)
(***************************************************************************)
ZeroAppSpec ==
    [Catalog |-> "", Name |-> "", Namespace |-> "", Version |-> "",
     KubeConfig |-> [InCluster |-> FALSE, Secret |-> Nil],
     Config |-> Nil, UserConfig |-> Nil]

ZeroAppStatus ==
    [AppVersion |-> "", Version |-> "", Release |-> [LastDeployed |-> "", Status |-> ""]]

\* a ConfigMapReference or SecretReference read from a map
parseReference(m) == [nil |-> FALSE, Name |-> AsString(m, "name"), Namespace |-> AsString(m, "namespace")]

\* parseAppConfig, and parseCatalogConfig, which is the same code
parseAppConfig(config) ==
    [nil |-> FALSE,
     ConfigMap |-> IF Is(config, "configMap", "map") THEN parseReference(config["configMap"].m) ELSE Nil,
     Secret |-> IF Is(config, "secret", "map") THEN parseReference(config["secret"].m) ELSE Nil]

\* the status block of NewAppFromUnstructured
parseAppStatus(obj) ==
    LET st == NestedMap(obj, "status")
    IN  IF st.err \/ ~st.found THEN ZeroAppStatus
        ELSE [AppVersion |-> AsString(st.val, "appVersion"),
              Version |-> AsString(st.val, "version"),
              Release |->
                IF Is(st.val, "release", "map")
                THEN [LastDeployed |-> AsString(st.val["release"].m, "lastDeployed"),
                      Status |-> AsString(st.val["release"].m, "status")]
                ELSE [LastDeployed |-> "", Status |-> ""]]

\* the record NewAppFromUnstructured starts from: the names, all else zero
newApp(obj) ==
    [Name |-> GetName(obj), Namespace |-> GetNamespace(obj),
     Spec |-> ZeroAppSpec, Status |-> ZeroAppStatus]

\* the field-by-field reads of NewAppFromUnstructured once spec is a map
appFromSpec(obj, spec) ==
    [newApp(obj) EXCEPT
       !.Spec = [Catalog |-> AsString(spec, "catalog"),
                 Name |-> AsString(spec, "name"),
                 Namespace |-> AsString(spec, "namespace"),
                 Version |-> AsString(spec, "version"),
                 KubeConfig |->
                   [InCluster |-> IF Is(spec, "kubeConfig", "map")
                                  THEN AsBool(spec["kubeConfig"].m, "inCluster")
                                  ELSE FALSE,
                    Secret |-> Nil],
                 Config |-> IF Is(spec, "config", "map")
                            THEN parseAppConfig(spec["config"].m) ELSE Nil,
                 UserConfig |-> IF Is(spec, "userConfig", "map")
                                THEN parseAppConfig(spec["userConfig"].m) ELSE Nil],
       !.Status = parseAppStatus(obj)]

\* a mutant of NewAppFromUnstructured: a missing spec is reported as an error
NewAppFromUnstructuredStrict(obj) ==
    LET sp == NestedMap(obj, "spec")
    IN  IF sp.err \/ ~sp.found THEN [v |-> newApp(obj), err |-> TRUE]
        ELSE [v |-> appFromSpec(obj, sp.val), err |-> FALSE]

\* returns the record and whether an error came with it
NewAppFromUnstructured(obj) ==
    LET sp == NestedMap(obj, "spec")
    IN  IF sp.err \/ ~sp.found THEN [v |-> newApp(obj), err |-> sp.err]
        ELSE [v |-> appFromSpec(obj, sp.val), err |-> FALSE]

\* a reference as ToUnstructured writes it
referenceToMap(ref) == MapV([name |-> StrV(ref.Name), namespace |-> StrV(ref.Namespace)])

\* the config map ToUnstructured builds from a non-nil AppConfig or CatalogConfig
configToMap(c) ==
    LET m0 == <<>>
        m1 == IF c.ConfigMap # Nil THEN Put(m0, "configMap", referenceToMap(c.ConfigMap)) ELSE m0
        m2 == IF c.Secret # Nil THEN Put(m1, "secret", referenceToMap(c.Secret)) ELSE m1
    IN  MapV(m2)

\* (a *App) ToUnstructured()
AppToUnstructured(a) ==
    LET spec0 == [catalog |-> StrV(a.Spec.Catalog), name |-> StrV(a.Spec.Name),
                  namespace |-> StrV(a.Spec.Namespace), version |-> StrV(a.Spec.Version),
                  kubeConfig |-> MapV([inCluster |-> BoolV(a.Spec.KubeConfig.InCluster)])]
        spec1 == IF a.Spec.Config # Nil THEN Put(spec0, "config", configToMap(a.Spec.Config)) ELSE spec0
        spec2 == IF a.Spec.UserConfig # Nil
                 THEN Put(spec1, "userConfig", configToMap(a.Spec.UserConfig)) ELSE spec1
    IN  [apiVersion |-> StrV("application.giantswarm.io/v1alpha1"),
         kind |-> StrV("App"),
         metadata |-> MapV([name |-> StrV(a.Name), namespace |-> StrV(a.Namespace)]),
         spec |-> MapV(spec2)]

(***************************************************************************)
(* Catalog: typed record and mapper                                        *)
(***************************************************************************)
ZeroCatalogSpec ==
    [Title |-> "", Description |-> "", LogoURL |-> "",
     Storage |-> [Type |-> "", URL |-> ""], Repositories |-> <<>>, Config |-> Nil]

\* the Repository of each map of a repositories list, other elements skipped
parseRepositories(l) ==
    LET maps == SelectSeq(l, LAMBDA n : n.t = "map")
    IN  [i \in 1..Len(maps) |->
           [Type |-> AsString(maps[i].m, "type"), URL |-> AsString(maps[i].m, "URL")]]

newCatalog(obj) ==
    [Name |-> GetName(obj), Namespace |-> GetNamespace(obj),
     Spec |-> ZeroCatalogSpec, Labels |-> GetLabels(obj)]

catalogFromSpec(obj, spec) ==
    [newCatalog(obj) EXCEPT
       !.Spec = [Title |-> AsString(spec, "title"),
                 Description |-> AsString(spec, "description"),
                 LogoURL |-> AsString(spec, "logoURL"),
                 Storage |-> IF Is(spec, "storage", "map")
                             THEN [Type |-> AsString(spec["storage"].m, "type"),
                                   URL |-> AsString(spec["storage"].m, "URL")]
                             ELSE [Type |-> "", URL |-> ""],
                 Repositories |-> IF Is(spec, "repositories", "list")
                                  THEN parseRepositories(spec["repositories"].l) ELSE <<>>,
                 Config |-> IF Is(spec, "config", "map")
                            THEN parseAppConfig(spec["config"].m) ELSE Nil]]

NewCatalogFromUnstructured(obj) ==
    LET sp == NestedMap(obj, "spec")
    IN  IF sp.err \/ ~sp.found THEN [v |-> newCatalog(obj), err |-> sp.err]
        ELSE [v |-> catalogFromSpec(obj, sp.val), err |-> FALSE]

\* (c *Catalog) ToUnstructured()
CatalogToUnstructured(c) ==
    LET spec0 == [title |-> StrV(c.Spec.Title), description |-> StrV(c.Spec.Description),
                  logoURL |-> StrV(c.Spec.LogoURL),
                  storage |-> MapV([type |-> StrV(c.Spec.Storage.Type),
                                    URL |-> StrV(c.Spec.Storage.URL)])]
        repos == [i \in 1..Len(c.Spec.Repositories) |->
                    MapV([type |-> StrV(c.Spec.Repositories[i].Type),
                          URL |-> StrV(c.Spec.Repositories[i].URL)])]
        spec1 == IF Len(c.Spec.Repositories) > 0
                 THEN Put(spec0, "repositories", ListV(repos)) ELSE spec0
        spec2 == IF c.Spec.Config # Nil THEN Put(spec1, "config", configToMap(c.Spec.Config)) ELSE spec1
    IN  [apiVersion |-> StrV("application.giantswarm.io/v1alpha1"),
         kind |-> StrV("Catalog"),
         metadata |-> MapV([name |-> StrV(c.Name), namespace |-> StrV(c.Namespace),
                            labels |-> StrMapV(c.Labels)]),
         spec |-> MapV(spec2)]

(***************************************************************************)
(* AppCatalogEntry: typed record and mapper                                *)
(***************************************************************************)
ZeroChartSpec ==
    [APIVersion |-> "", AppVersion |-> "", Description |-> "", Home |-> "", Icon |-> "",
     Keywords |-> <<>>, Name |-> "", Sources |-> <<>>, URLs |-> <<>>, Version |-> ""]

ZeroAppCatalogEntrySpec ==
    [AppName |-> "", AppVersion |-> "", Catalog |-> [Name |-> "", Namespace |-> ""],
     Chart |-> ZeroChartSpec, DateCreated |-> Nil, DateUpdated |-> Nil, Restrictions |-> Nil]

\* the instants of the date strings that time.Parse(time.RFC3339, s) accepts
RFC3339Times == ("2024-01-01T00:00:00Z" :> 1) @@ ("2024-06-01T00:00:00Z" :> 2)

\* if t, err := time.Parse(time.RFC3339, s); err == nil { field = &t }
parseTime(m, k) ==
    IF Is(m, k, "str") /\ m[k].s \in DOMAIN RFC3339Times
    THEN [nil |-> FALSE, unix |-> RFC3339Times[m[k].s]]
    ELSE Nil

parseChartSpec(chart) ==
    [APIVersion |-> AsString(chart, "apiVersion"),
     AppVersion |-> AsString(chart, "appVersion"),
     Description |-> AsString(chart, "description"),
     Home |-> AsString(chart, "home"),
     Icon |-> AsString(chart, "icon"),
     Name |-> AsString(chart, "name"),
     Version |-> AsString(chart, "version"),
     Keywords |-> IF Is(chart, "keywords", "list") THEN StringsOf(chart["keywords"].l) ELSE <<>>,
     Sources |-> IF Is(chart, "sources", "list") THEN StringsOf(chart["sources"].l) ELSE <<>>,
     URLs |-> IF Is(chart, "urls", "list") THEN StringsOf(chart["urls"].l) ELSE <<>>]

parseRestrictions(r) ==
    [nil |-> FALSE,
     ClusterSingleton |-> AsBool(r, "clusterSingleton"),
     NamespaceSingleton |-> AsBool(r, "namespaceSingleton"),
     FixedNamespace |-> AsString(r, "fixedNamespace"),
     GpuInstances |-> AsBool(r, "gpuInstances")]

newAppCatalogEntry(obj) ==
    [Name |-> GetName(obj), Namespace |-> GetNamespace(obj),
     Spec |-> ZeroAppCatalogEntrySpec, Labels |-> GetLabels(obj),
     Annotations |-> GetAnnotations(obj)]

entryFromSpec(obj, spec) ==
    [newAppCatalogEntry(obj) EXCEPT
       !.Spec = [AppName |-> AsString(spec, "appName"),
                 AppVersion |-> AsString(spec, "appVersion"),
                 Catalog |-> IF Is(spec, "catalog", "map")
                             THEN [Name |-> AsString(spec["catalog"].m, "name"),
                                   Namespace |-> AsString(spec["catalog"].m, "namespace")]
                             ELSE [Name |-> "", Namespace |-> ""],
                 Chart |-> IF Is(spec, "chart", "map")
                           THEN parseChartSpec(spec["chart"].m) ELSE ZeroChartSpec,
                 DateCreated |-> parseTime(spec, "dateCreated"),
                 DateUpdated |-> parseTime(spec, "dateUpdated"),
                 Restrictions |-> IF Is(spec, "restrictions", "map")
                                  THEN parseRestrictions(spec["restrictions"].m) ELSE Nil]]

\* a test that takes any restrictions for the cluster-wide restriction
IsClusterAppAnyRestrictions(e) == e.Spec.Restrictions # Nil

\* (e *AppCatalogEntry) IsClusterApp()
IsClusterApp(e) ==
    IF e.Spec.Restrictions # Nil THEN e.Spec.Restrictions.ClusterSingleton ELSE FALSE

NewAppCatalogEntryFromUnstructured(obj) ==
    LET sp == NestedMap(obj, "spec")
    IN  IF sp.err \/ ~sp.found THEN [v |-> newAppCatalogEntry(obj), err |-> sp.err]
        ELSE [v |-> entryFromSpec(obj, sp.val), err |-> FALSE]

\* t.Format(time.RFC3339) of an instant that time.Parse returned
FormatRFC3339(t) == CHOOSE text \in DOMAIN RFC3339Times : RFC3339Times[text] = t.unix

\* the []interface{} ToUnstructured builds from a []string
stringsToList(strs) == ListV([i \in 1..Len(strs) |-> StrV(strs[i])])

\* (e *AppCatalogEntry) ToUnstructured()
AppCatalogEntryToUnstructured(e) ==
    LET chart0 == [apiVersion |-> StrV(e.Spec.Chart.APIVersion),
                   appVersion |-> StrV(e.Spec.Chart.AppVersion),
                   description |-> StrV(e.Spec.Chart.Description),
                   home |-> StrV(e.Spec.Chart.Home), icon |-> StrV(e.Spec.Chart.Icon),
                   name |-> StrV(e.Spec.Chart.Name), version |-> StrV(e.Spec.Chart.Version)]
        chart1 == IF Len(e.Spec.Chart.Keywords) > 0
                  THEN Put(chart0, "keywords", stringsToList(e.Spec.Chart.Keywords)) ELSE chart0
        chart2 == IF Len(e.Spec.Chart.Sources) > 0
                  THEN Put(chart1, "sources", stringsToList(e.Spec.Chart.Sources)) ELSE chart1
        chart3 == IF Len(e.Spec.Chart.URLs) > 0
                  THEN Put(chart2, "urls", stringsToList(e.Spec.Chart.URLs)) ELSE chart2
        spec0 == [appName |-> StrV(e.Spec.AppName), appVersion |-> StrV(e.Spec.AppVersion),
                  catalog |-> MapV([name |-> StrV(e.Spec.Catalog.Name),
                                    namespace |-> StrV(e.Spec.Catalog.Namespace)]),
                  chart |-> MapV(chart3)]
        spec1 == IF e.Spec.DateCreated # Nil
                 THEN Put(spec0, "dateCreated", StrV(FormatRFC3339(e.Spec.DateCreated)))
                 ELSE spec0
        spec2 == IF e.Spec.DateUpdated # Nil
                 THEN Put(spec1, "dateUpdated", StrV(FormatRFC3339(e.Spec.DateUpdated)))
                 ELSE spec1
        spec3 == IF e.Spec.Restrictions # Nil
                 THEN Put(spec2, "restrictions",
                          MapV([clusterSingleton |-> BoolV(e.Spec.Restrictions.ClusterSingleton),
                                namespaceSingleton |-> BoolV(e.Spec.Restrictions.NamespaceSingleton),
                                fixedNamespace |-> StrV(e.Spec.Restrictions.FixedNamespace),
                                gpuInstances |-> BoolV(e.Spec.Restrictions.GpuInstances)]))
                 ELSE spec2
    IN  [apiVersion |-> StrV("application.giantswarm.io/v1alpha1"),
         kind |-> StrV("AppCatalogEntry"),
         metadata |-> MapV([name |-> StrV(e.Name), namespace |-> StrV(e.Namespace),
                            labels |-> StrMapV(e.Labels),
                            annotations |-> StrMapV(e.Annotations)]),
         spec |-> MapV(spec3)]

(***************************************************************************)
(* Cluster (CAPI): typed record and mapper                                 *)
(***************************************************************************)
ZeroClusterSpec == [ClusterNetwork |-> Nil, InfrastructureRef |-> Nil, ControlPlaneRef |-> Nil]

ZeroClusterStatus ==
    [Phase |-> "", InfrastructureReady |-> FALSE, ControlPlaneReady |-> FALSE, Conditions |-> <<>>]

parseNetworkRanges(data) ==
    [nil |-> FALSE,
     CIDRBlocks |-> IF Is(data, "cidrBlocks", "list") THEN StringsOf(data["cidrBlocks"].l) ELSE <<>>]

parseClusterNetwork(data) ==
    [nil |-> FALSE,
     APIServerPort |-> IF Is(data, "apiServerPort", "int")
                       THEN [nil |-> FALSE, port |-> Int32(data["apiServerPort"].i)] ELSE Nil,
     Services |-> IF Is(data, "services", "map") THEN parseNetworkRanges(data["services"].m) ELSE Nil,
     Pods |-> IF Is(data, "pods", "map") THEN parseNetworkRanges(data["pods"].m) ELSE Nil]

parseObjectReference(data) ==
    [nil |-> FALSE,
     APIVersion |-> AsString(data, "apiVersion"), Kind |-> AsString(data, "kind"),
     Name |-> AsString(data, "name"), Namespace |-> AsString(data, "namespace")]

parseConditions(data) ==
    LET maps == SelectSeq(data, LAMBDA n : n.t = "map")
    IN  [i \in 1..Len(maps) |->
           [Type |-> AsString(maps[i].m, "type"), Status |-> AsString(maps[i].m, "status"),
            LastTransitionTime |-> AsString(maps[i].m, "lastTransitionTime"),
            Reason |-> AsString(maps[i].m, "reason"), Message |-> AsString(maps[i].m, "message")]]

\* spec and status are each read only when they are maps; no error is returned
NewClusterFromUnstructured(obj) ==
    LET sp == NestedMap(obj, "spec")
        st == NestedMap(obj, "status")
    IN  [v |-> [Name |-> GetName(obj), Namespace |-> GetNamespace(obj),
                Labels |-> GetLabels(obj),
                Spec |-> IF ~sp.err /\ sp.found
                         THEN [ClusterNetwork |->
                                 IF Is(sp.val, "clusterNetwork", "map")
                                 THEN parseClusterNetwork(sp.val["clusterNetwork"].m) ELSE Nil,
                               InfrastructureRef |->
                                 IF Is(sp.val, "infrastructureRef", "map")
                                 THEN parseObjectReference(sp.val["infrastructureRef"].m) ELSE Nil,
                               ControlPlaneRef |->
                                 IF Is(sp.val, "controlPlaneRef", "map")
                                 THEN parseObjectReference(sp.val["controlPlaneRef"].m) ELSE Nil]
                         ELSE ZeroClusterSpec,
                Status |-> IF ~st.err /\ st.found
                           THEN [Phase |-> AsString(st.val, "phase"),
                                 InfrastructureReady |-> AsBool(st.val, "infrastructureReady"),
                                 ControlPlaneReady |-> AsBool(st.val, "controlPlaneReady"),
                                 Conditions |-> IF Is(st.val, "conditions", "list")
                                                THEN parseConditions(st.val["conditions"].l)
                                                ELSE <<>>]
                           ELSE ZeroClusterStatus],
         err |-> FALSE]

networkRangesToMap(nr) == MapV([cidrBlocks |-> StringsV(nr.CIDRBlocks)])

clusterNetworkToMap(cn) ==
    LET m0 == <<>>
        m1 == IF cn.APIServerPort # Nil
              THEN Put(m0, "apiServerPort", Int32V(cn.APIServerPort.port)) ELSE m0
        m2 == IF cn.Services # Nil THEN Put(m1, "services", networkRangesToMap(cn.Services)) ELSE m1
        m3 == IF cn.Pods # Nil THEN Put(m2, "pods", networkRangesToMap(cn.Pods)) ELSE m2
    IN  MapV(m3)

objectReferenceToMap(ref) ==
    MapV([apiVersion |-> StrV(ref.APIVersion), kind |-> StrV(ref.Kind),
          name |-> StrV(ref.Name), namespace |-> StrV(ref.Namespace)])

\* (c *Cluster) ToUnstructured(): SetName, SetNamespace and SetLabels write
\* nothing for an empty value
ClusterToUnstructured(c) ==
    LET meta0 == <<>>
        meta1 == IF c.Name # "" THEN Put(meta0, "name", StrV(c.Name)) ELSE meta0
        meta2 == IF c.Namespace # "" THEN Put(meta1, "namespace", StrV(c.Namespace)) ELSE meta1
        meta3 == IF DOMAIN c.Labels # {}
                 THEN Put(meta2, "labels", MapV([k \in DOMAIN c.Labels |-> StrV(c.Labels[k])]))
                 ELSE meta2
        spec0 == <<>>
        spec1 == IF c.Spec.ClusterNetwork # Nil
                 THEN Put(spec0, "clusterNetwork", clusterNetworkToMap(c.Spec.ClusterNetwork))
                 ELSE spec0
        spec2 == IF c.Spec.InfrastructureRef # Nil
                 THEN Put(spec1, "infrastructureRef",
                          objectReferenceToMap(c.Spec.InfrastructureRef))
                 ELSE spec1
        spec3 == IF c.Spec.ControlPlaneRef # Nil
                 THEN Put(spec2, "controlPlaneRef", objectReferenceToMap(c.Spec.ControlPlaneRef))
                 ELSE spec2
        obj == [apiVersion |-> StrV("cluster.x-k8s.io/v1beta1"), kind |-> StrV("Cluster"),
                spec |-> MapV(spec3)]
    IN  IF DOMAIN meta3 = {} THEN obj ELSE Put(obj, "metadata", MapV(meta3))

\* (c *Cluster) GetOrganization()
GetOrganization(c) ==
    IF "giantswarm.io/organization" \in DOMAIN c.Labels
    THEN c.Labels["giantswarm.io/organization"] ELSE ""

(***************************************************************************)
(* The Kubernetes API: the store, and one operator per call. Every call    *)
(* takes the calls made so far in the invocation and the set of call       *)
(* numbers that fail (connection refused, timeout, forbidden ...), and     *)
(* returns the log extended by itself.                                     *)
(***************************************************************************)
NoSelector == [k |-> "", v |-> ""]
OrganizationLabel == "giantswarm.io/organization"

\* one entry of the call log; rv is the resourceVersion a get returned or an
\* update submitted
Call(verb, resource, ns, name, sel, rv, ok) ==
    [verb |-> verb, resource |-> resource, ns |-> ns, name |-> name,
     sel |-> sel, rv |-> rv, ok |-> ok]

\* a label selector of the form key=value, on a map of labels
Selects(sel, labels) == sel = NoSelector \/ (sel.k \in DOMAIN labels /\ labels[sel.k] = sel.v)

\* the keys of the custom resources, in the order the server lists them
ObjKeys ==
    << <<"App", "org-a", "app1">>, <<"App", "workload-c1", "app2">>,
       <<"Catalog", "default", "cat">>, <<"AppCatalogEntry", "default", "cat-x-1">>,
       <<"Cluster", "org-a", "c1">> >>

\* the keys of the clusters a server may hold next to c1
MoreClusterKeys == << <<"Cluster", "org-a", "c2">>, <<"Cluster", "workload-c1", "c3">> >>

\* the keys of the catalog entries that only some stores hold
MoreEntryKeys ==
    << <<"AppCatalogEntry", "default", "cat-x-2">>, <<"AppCatalogEntry", "default", "cat-x-y-1">>,
       <<"AppCatalogEntry", "default", "cat-x-1-rc">> >>

\* the key of the App that app_create adds to the server
NewAppKey == <<"App", "org-a", "new">>

\* dynamicClient.Resource(gvr).Namespace(ns).List(ctx, opts); ns "" is all namespaces
apiList(objs, calls, fail, kind, ns, sel) ==
    LET ok == (Len(calls) + 1) \notin fail
        keys == SelectSeq(ObjKeys \o <<NewAppKey>> \o MoreClusterKeys \o MoreEntryKeys,
                         LAMBDA key :
                    /\ key \in DOMAIN objs /\ key[1] = kind
                    /\ (ns = "" \/ key[2] = ns)
                    /\ Selects(sel, GetLabels(objs[key])))
    IN  [ok |-> ok,
         items |-> IF ok THEN [i \in 1..Len(keys) |-> objs[keys[i]]] ELSE <<>>,
         calls |-> Append(calls, Call("list", kind, ns, "", sel, "", ok))]

\* dynamicClient.Resource(gvr).Namespace(ns).Get(ctx, name, opts)
apiGet(objs, calls, fail, kind, ns, name) ==
    LET ok == (Len(calls) + 1) \notin fail /\ <<kind, ns, name>> \in DOMAIN objs
        rv == IF ok THEN GetResourceVersion(objs[<<kind, ns, name>>]) ELSE ""
    IN  [ok |-> ok,
         obj |-> IF ok THEN objs[<<kind, ns, name>>] ELSE <<>>,
         calls |-> Append(calls, Call("get", kind, ns, name, NoSelector, rv, ok))]

\* resourceVersions are decimal strings
Digits == <<"0", "1", "2", "3", "4", "5", "6", "7", "8", "9">>
RVString(n) == Digits[n + 1]
RVNumber(rv) == CHOOSE n \in 0..9 : RVString(n) = rv

\* dynamicClient.Resource(gvr).Namespace(ns).Update(ctx, obj, opts): the object
\* must exist and a resourceVersion, when one is submitted, must be the
\* stored one; the stored object gets the next resourceVersion
apiUpdate(objs, calls, fail, kind, obj) ==
    LET key == <<kind, GetNamespace(obj), GetName(obj)>>
        rv == GetResourceVersion(obj)
        ok == /\ (Len(calls) + 1) \notin fail
              /\ key \in DOMAIN objs
              /\ (rv = "" \/ rv = GetResourceVersion(objs[key]))
        stored == IF ok
                  THEN SetResourceVersion(obj,
                           RVString(RVNumber(GetResourceVersion(objs[key])) + 1))
                  ELSE <<>>
    IN  [ok |-> ok, obj |-> stored,
         objs |-> IF ok THEN [objs EXCEPT ![key] = stored] ELSE objs,
         calls |-> Append(calls, Call("update", kind, key[2], key[3], NoSelector, rv, ok))]

\* k8sClient.CoreV1().Namespaces().List(ctx, opts)
apiListNamespaces(nss, calls, fail, sel) ==
    LET ok == (Len(calls) + 1) \notin fail
    IN  [ok |-> ok,
         items |-> IF ok THEN SelectSeq(nss, LAMBDA ns : Selects(sel, ns.Labels)) ELSE <<>>,
         calls |-> Append(calls, Call("list", "Namespace", "", "", sel, "", ok))]

\* k8sClient.CoreV1().ConfigMaps(ns).Get / Secrets(ns).Get
apiGetConfig(store, calls, fail, type, ns, name) ==
    LET ok == (Len(calls) + 1) \notin fail /\ <<type, ns, name>> \in DOMAIN store
    IN  [ok |-> ok,
         obj |-> IF ok THEN store[<<type, ns, name>>] ELSE <<>>,
         calls |-> Append(calls, Call("get", type, ns, name, NoSelector,
                                      IF ok THEN store[<<type, ns, name>>].ResourceVersion ELSE "",
                                      ok))]

\* k8sClient.CoreV1().ConfigMaps(ns).Create / Secrets(ns).Create: the name must be free
apiCreateConfig(store, calls, fail, type, obj) ==
    LET key == <<type, obj.Namespace, obj.Name>>
        ok == (Len(calls) + 1) \notin fail /\ key \notin DOMAIN store
        stored == [obj EXCEPT !.ResourceVersion = RVString(1)]
    IN  [ok |-> ok,
         store |-> IF ok
                   THEN [x \in DOMAIN store \cup {key} |-> IF x = key THEN stored ELSE store[x]]
                   ELSE store,
         calls |-> Append(calls, Call("create", type, key[2], key[3], NoSelector, "", ok))]

\* k8sClient.CoreV1().ConfigMaps(ns).Update / Secrets(ns).Update
apiUpdateConfig(store, calls, fail, type, obj) ==
    LET key == <<type, obj.Namespace, obj.Name>>
        ok == /\ (Len(calls) + 1) \notin fail
              /\ key \in DOMAIN store
              /\ (obj.ResourceVersion = "" \/ obj.ResourceVersion = store[key].ResourceVersion)
    IN  [ok |-> ok,
         store |-> IF ok
                   THEN [store EXCEPT ![key] =
                           [obj EXCEPT !.ResourceVersion =
                              RVString(RVNumber(store[key].ResourceVersion) + 1)]]
                   ELSE store,
         calls |-> Append(calls, Call("update", type, key[2], key[3], NoSelector,
                                      obj.ResourceVersion, ok))]

(***************************************************************************)
(* Organization namespaces                                                 *)
(***************************************************************************)
OrganizationNamespacePrefix == <<"o", "r", "g", "-">>
WorkloadClusterNamespacePrefix == <<"w", "o", "r", "k", "l", "o", "a", "d", "-">>

IsOrganizationNamespace(namespace) == HasPrefix(NameChars[namespace], OrganizationNamespacePrefix)
IsWorkloadClusterNamespace(namespace) == HasPrefix(NameChars[namespace], WorkloadClusterNamespacePrefix)

GetOrganizationNamespace(organization) ==
    IF IsOrganizationNamespace(organization) THEN organization
    ELSE NameOf(OrganizationNamespacePrefix \o NameChars[organization])

\* what an operation returns: the kind of its error ("" for none, "api" for
\* an error that wraps the error of the API call numbered wraps), its value
\* and the call log
Ret(errKind, wraps, val, calls) ==
    [err |-> errKind # "", errKind |-> errKind, wraps |-> wraps, val |-> val, calls |-> calls]

\* the names of a list of Namespace objects
NamesOf(items) == [i \in 1..Len(items) |-> items[i].Name]

\* a mutant of ListOrganizationNamespaces: the second list repeats the first
ListOrganizationNamespacesRetry(nss, calls, fail) ==
    LET sel == [k |-> OrganizationLabel, v |-> "true"]
        afterAll(allNamespaces) ==
            IF ~allNamespaces.ok
            THEN Ret("api", Len(allNamespaces.calls), <<>>, allNamespaces.calls)
            ELSE Ret("", 0, SelectSeq(NamesOf(allNamespaces.items), IsOrganizationNamespace),
                     allNamespaces.calls)
        afterLabelled(labelled) ==
            IF labelled.ok /\ Len(labelled.items) > 0
            THEN Ret("", 0, NamesOf(labelled.items), labelled.calls)
            ELSE afterAll(apiListNamespaces(nss, labelled.calls, fail, sel))
    IN  afterLabelled(apiListNamespaces(nss, calls, fail, sel))

ListOrganizationNamespaces(nss, calls, fail) ==
    LET afterAll(allNamespaces) ==
            IF ~allNamespaces.ok
            THEN Ret("api", Len(allNamespaces.calls), <<>>, allNamespaces.calls)
            ELSE Ret("", 0, SelectSeq(NamesOf(allNamespaces.items), IsOrganizationNamespace),
                     allNamespaces.calls)
        afterLabelled(labelled) ==
            IF labelled.ok /\ Len(labelled.items) > 0
            THEN Ret("", 0, NamesOf(labelled.items), labelled.calls)
            ELSE afterAll(apiListNamespaces(nss, labelled.calls, fail, NoSelector))
    IN  afterLabelled(apiListNamespaces(nss, calls, fail,
                                        [k |-> OrganizationLabel, v |-> "true"]))

\* the app client's own GetOrganizationNamespaces of pkg/app/client.go: the
\* second list is made only when the first one failed
GetOrganizationNamespaces(nss, calls, fail) ==
    LET afterAll(allNamespaces) ==
            IF ~allNamespaces.ok
            THEN Ret("api", Len(allNamespaces.calls), <<>>, allNamespaces.calls)
            ELSE Ret("", 0,
                     SelectSeq(NamesOf(allNamespaces.items),
                               LAMBDA n : Len(NameChars[n]) > 4
                                          /\ SubSeq(NameChars[n], 1, 4) = <<"o", "r", "g", "-">>),
                     allNamespaces.calls)
        afterLabelled(labelled) ==
            IF labelled.ok THEN Ret("", 0, NamesOf(labelled.items), labelled.calls)
            ELSE afterAll(apiListNamespaces(nss, labelled.calls, fail, NoSelector))
    IN  afterLabelled(apiListNamespaces(nss, calls, fail,
                                        [k |-> OrganizationLabel, v |-> "true"]))

GetNamespacesByOrganization(nss, calls, fail, organization) ==
    LET belongs(ns) ==
            \/ ns.Name = GetOrganizationNamespace(organization)
            \/ (OrganizationLabel \in DOMAIN ns.Labels
                /\ ns.Labels[OrganizationLabel] = organization)
            \/ (IsWorkloadClusterNamespace(ns.Name)
                /\ "giantswarm.io/owner" \in DOMAIN ns.Labels
                /\ ns.Labels["giantswarm.io/owner"] = organization)
        afterAll(allNamespaces) ==
            IF ~allNamespaces.ok
            THEN Ret("api", Len(allNamespaces.calls), <<>>, allNamespaces.calls)
            ELSE Ret("", 0, NamesOf(SelectSeq(allNamespaces.items, belongs)),
                     allNamespaces.calls)
    IN  afterAll(apiListNamespaces(nss, calls, fail, NoSelector))

(***************************************************************************)
(* The resource clients                                                    *)
(***************************************************************************)
\* the decoder each client hands the trees of the server to
Decode(kind, obj) ==
    CASE kind = "App" -> NewAppFromUnstructured(obj)
      [] kind = "Catalog" -> NewCatalogFromUnstructured(obj)
      [] kind = "AppCatalogEntry" -> NewAppCatalogEntryFromUnstructured(obj)
      [] kind = "Cluster" -> NewClusterFromUnstructured(obj)

\* a mutant of List: an object whose decoding failed is kept
ListKeepInvalid(objs, calls, fail, kind, namespace, labelSelector) ==
    LET afterList(list) ==
            IF ~list.ok THEN Ret("api", Len(list.calls), <<>>, list.calls)
            ELSE Ret("", 0, [i \in 1..Len(list.items) |-> Decode(kind, list.items[i]).v],
                     list.calls)
    IN  afterList(apiList(objs, calls, fail, kind, namespace, labelSelector))

\* Client.List of the app client; the catalog, appcatalogentry and cluster
\* clients have the same code around their own resource and decoder
List(objs, calls, fail, kind, namespace, labelSelector) ==
    LET valid(items) == SelectSeq(items, LAMBDA item : ~Decode(kind, item).err)
        records(items) == [i \in 1..Len(items) |-> Decode(kind, items[i]).v]
        afterList(list) ==
            IF ~list.ok THEN Ret("api", Len(list.calls), <<>>, list.calls)
            ELSE Ret("", 0, records(valid(list.items)), list.calls)
    IN  afterList(apiList(objs, calls, fail, kind, namespace, labelSelector))

\* Client.Get of the app client; the other clients have the same code
Get(objs, calls, fail, kind, namespace, name) ==
    LET decoded(obj, d) == Ret(IF d.err THEN "decode" ELSE "", 0, d.v, obj.calls)
        afterGet(obj) ==
            IF ~obj.ok THEN Ret("api", Len(obj.calls), <<>>, obj.calls)
            ELSE decoded(obj, Decode(kind, obj.obj))
    IN  afterGet(apiGet(objs, calls, fail, kind, namespace, name))

ToUnstructured(kind, rec) ==
    CASE kind = "App" -> AppToUnstructured(rec)
      [] kind = "Catalog" -> CatalogToUnstructured(rec)
      [] kind = "AppCatalogEntry" -> AppCatalogEntryToUnstructured(rec)
      [] kind = "Cluster" -> ClusterToUnstructured(rec)

\* dynamicClient.Resource(gvr).Namespace(ns).Create(ctx, obj, opts): the
\* server refuses an object that exists and numbers the stored one
apiCreate(objs, calls, fail, kind, ns, obj) ==
    LET key == <<kind, ns, GetName(obj)>>
        ok == (Len(calls) + 1) \notin fail /\ key \notin DOMAIN objs
        stored == IF ok THEN SetResourceVersion(obj, RVString(1)) ELSE <<>>
    IN  [ok |-> ok, obj |-> stored,
         objs |-> IF ok
                  THEN [x \in DOMAIN objs \cup {key} |-> IF x = key THEN stored ELSE objs[x]]
                  ELSE objs,
         calls |-> Append(calls, Call("create", kind, ns, key[3], NoSelector, "", ok))]

\* Client.Create of the app client. The value returned also carries the
\* store after the call.
Create(objs, calls, fail, app) ==
    LET decoded(created, d) ==
            Ret(IF d.err THEN "decode" ELSE "", 0, d.v, created.calls) @@ [objs |-> created.objs]
        afterCreate(created) ==
            IF ~created.ok
            THEN Ret("api", Len(created.calls), <<>>, created.calls) @@ [objs |-> objs]
            ELSE decoded(created, NewAppFromUnstructured(created.obj))
    IN  afterCreate(apiCreate(objs, calls, fail, "App", app.Namespace, AppToUnstructured(app)))

\* Client.Update of the app client; the catalog client has the same code.
\* The value returned also carries the store after the call.
Update(objs, calls, fail, kind, rec) ==
    LET decoded(updated, d) ==
            Ret(IF d.err THEN "decode" ELSE "", 0, d.v, updated.calls) @@ [objs |-> updated.objs]
        afterUpdate(updated) ==
            IF ~updated.ok
            THEN Ret("api", Len(updated.calls), <<>>, updated.calls) @@ [objs |-> objs]
            ELSE decoded(updated, Decode(kind, updated.obj))
        \* unstructuredApp.SetResourceVersion(currentUnstructured.GetResourceVersion())
        afterGet(current) ==
            IF current.err THEN [current EXCEPT !.val = <<>>] @@ [objs |-> objs]
            ELSE afterUpdate(
                   apiUpdate(objs, current.calls, fail, kind,
                             SetResourceVersion(
                                ToUnstructured(kind, rec),
                                GetResourceVersion(ToUnstructured(kind, current.val)))))
    IN  afterGet(Get(objs, calls, fail, kind, rec.Namespace, rec.Name))

\* (c *Client) UpdateVersion of the app client
UpdateVersion(objs, calls, fail, namespace, name, version) ==
    LET afterGet(app) ==
            IF app.err THEN [app EXCEPT !.val = <<>>] @@ [objs |-> objs]
            ELSE Update(objs, app.calls, fail, "App", [app.val EXCEPT !.Spec.Version = version])
    IN  afterGet(Get(objs, calls, fail, "App", namespace, name))

\* a mutant of ListEach: the first namespace whose List fails ends the loop
\* with that error
RECURSIVE ListEachAbort(_, _, _, _, _, _)
ListEachAbort(objs, calls, fail, kind, nss, labelSelector) ==
    LET joined(r, rest) ==
            IF rest.err THEN rest ELSE Ret("", 0, r.val \o rest.val, rest.calls)
        afterList(r) ==
            IF r.err THEN r
            ELSE joined(r, ListEachAbort(objs, r.calls, fail, kind, Tail(nss), labelSelector))
    IN  IF nss = <<>> THEN Ret("", 0, <<>>, calls)
        ELSE afterList(List(objs, calls, fail, kind, Head(nss), labelSelector))

\* the loop of app ListByOrganization, of cluster ListByOrganization and of
\* app_list over all organizations: a namespace whose List fails is skipped
RECURSIVE ListEach(_, _, _, _, _, _)
ListEach(objs, calls, fail, kind, nss, labelSelector) ==
    LET joined(r, rest) ==
            Ret("", 0, (IF r.err THEN <<>> ELSE r.val) \o rest.val, rest.calls)
        afterList(r) ==
            joined(r, ListEach(objs, r.calls, fail, kind, Tail(nss), labelSelector))
    IN  IF nss = <<>> THEN Ret("", 0, <<>>, calls)
        ELSE afterList(List(objs, calls, fail, kind, Head(nss), labelSelector))

\* ListByOrganization of the app client (labelSelector given) and of the
\* cluster client (no selector, and a filter on the organization label)
ListByOrganization(nss, objs, calls, fail, kind, org, labelSelector) ==
    LET filtered(r) ==
            IF kind = "Cluster"
            THEN [r EXCEPT !.val = SelectSeq(r.val, LAMBDA c : GetOrganization(c) = org)]
            ELSE r
        afterNamespaces(n) ==
            IF n.err THEN n
            ELSE filtered(ListEach(objs, n.calls, fail, kind, n.val, labelSelector))
    IN  afterNamespaces(GetNamespacesByOrganization(nss, calls, fail, org))

(***************************************************************************)
(* Cluster tools                                                           *)
(***************************************************************************)
\* fmt.Sprintf("%s-kubeconfig", cluster.Name) of GetKubeconfig
KubeconfigSecretName(clusterName) ==
    NameOf(NameChars[clusterName]
             \o <<"-", "k", "u", "b", "e", "c", "o", "n", "f", "i", "g">>)

\* (c *Client) ListApps of the cluster client
ListApps(objs, calls, fail, cluster) ==
    LET workloadNamespace == NameOf(WorkloadClusterNamespacePrefix \o NameChars[cluster.Name])
        merged(apps, orgApps) ==
            IF orgApps.err THEN Ret("", 0, apps.val, orgApps.calls)
            ELSE Ret("", 0,
                     apps.val \o SelectSeq(orgApps.val, LAMBDA a : ~a.Spec.KubeConfig.InCluster),
                     orgApps.calls)
        afterList(apps) ==
            IF apps.err THEN apps
            ELSE IF GetOrganization(cluster) = "" THEN apps
            ELSE merged(apps,
                        List(objs, apps.calls, fail, "App",
                             GetOrganizationNamespace(GetOrganization(cluster)), NoSelector))
    IN  afterList(List(objs, calls, fail, "App", workloadNamespace, NoSelector))

\* the first cluster of the list with the given name, Nil when there is none
FindCluster(clusters, name) ==
    LET hits == SelectSeq(clusters, LAMBDA c : c.Name = name)
    IN  IF hits = <<>> THEN Nil ELSE Head(hits)

\* the cluster_apps handler
cluster_apps(nss, objs, fail, clusterName, namespace, org) ==
    LET target(found) ==
            IF found.err THEN Nil
            ELSE IF namespace # "" THEN found.val
            ELSE FindCluster(found.val, clusterName)
        apps(found, targetCluster) ==
            IF targetCluster = Nil THEN Ret("notfound", 0, <<>>, found.calls)
            ELSE ListApps(objs, found.calls, fail, targetCluster)
        afterLookup(found) == apps(found, target(found))
    IN  afterLookup(
          IF namespace # "" THEN Get(objs, <<>>, fail, "Cluster", namespace, clusterName)
          ELSE IF org # ""
          THEN ListByOrganization(nss, objs, <<>>, fail, "Cluster", org, NoSelector)
          ELSE List(objs, <<>>, fail, "Cluster", "", NoSelector))

(***************************************************************************)
(* App tools                                                               *)
(***************************************************************************)
FilterByStatus(apps, status) ==
    IF status = "" THEN apps ELSE SelectSeq(apps, LAMBDA a : a.Status.Release.Status = status)

FilterByCatalog(apps, catalog) ==
    IF catalog = "" THEN apps ELSE SelectSeq(apps, LAMBDA a : a.Spec.Catalog = catalog)

\* the app_list handler
app_list(nss, objs, fail, args) ==
    LET filtered(r) ==
            IF r.err THEN r
            ELSE [r EXCEPT !.val = FilterByCatalog(FilterByStatus(r.val, args.status),
                                                   args.catalog)]
        afterNamespaces(orgNamespaces) ==
            IF orgNamespaces.err THEN orgNamespaces
            ELSE ListEach(objs, orgNamespaces.calls, fail, "App", orgNamespaces.val,
                          args.labels)
    IN  filtered(
          IF args.organization # ""
          THEN (IF args.includeWorkloadClusters
                THEN ListByOrganization(nss, objs, <<>>, fail, "App",
                                        args.organization, args.labels)
                ELSE List(objs, <<>>, fail, "App",
                          GetOrganizationNamespace(args.organization), args.labels))
          ELSE IF args.allOrgs /\ args.namespace = ""
          THEN afterNamespaces(ListOrganizationNamespaces(nss, <<>>, fail))
          ELSE List(objs, <<>>, fail, "App", args.namespace, args.labels))

(***************************************************************************)
(* ConfigMaps and Secrets: the config client and the config tools. The     *)
(* names, keys and values here are sequences of characters.                *)
(***************************************************************************)
\* NewConfigFromConfigMap and NewConfigFromSecret
NewConfig(type, obj) ==
    [Name |-> obj.Name, Namespace |-> obj.Namespace, Type |-> type,
     Data |-> obj.Data, Labels |-> obj.Labels]

\* ToConfigMap and ToSecret: the object carries no resourceVersion
ToObject(config) ==
    [Name |-> config.Name, Namespace |-> config.Namespace, Labels |-> config.Labels,
     Data |-> config.Data, ResourceVersion |-> ""]

\* (c *Config) SetValue(key, value)
SetValue(config, key, value) == [config EXCEPT !.Data = Put(config.Data, key, value)]

\* (c *Client) Get of the config client: GetConfigMap or GetSecret
ConfigGet(store, calls, fail, namespace, name, configType) ==
    LET r == apiGetConfig(store, calls, fail, configType, namespace, name)
    IN  IF ~r.ok THEN Ret("api", Len(r.calls), <<>>, r.calls) @@ [store |-> store]
        ELSE Ret("", 0, NewConfig(configType, r.obj), r.calls) @@ [store |-> store]

\* (c *Client) Create of the config client: CreateConfigMap or CreateSecret
ConfigCreate(store, calls, fail, config) ==
    LET r == apiCreateConfig(store, calls, fail, config.Type, ToObject(config))
    IN  Ret(IF r.ok THEN "" ELSE "api", IF r.ok THEN 0 ELSE Len(r.calls), <<>>, r.calls)
        @@ [store |-> r.store]

\* (c *Client) Update of the config client: UpdateConfigMap or UpdateSecret
ConfigUpdate(store, calls, fail, config) ==
    LET current == apiGetConfig(store, calls, fail, config.Type, config.Namespace, config.Name)
        obj == [ToObject(config) EXCEPT !.ResourceVersion = current.obj.ResourceVersion]
        r == apiUpdateConfig(store, current.calls, fail, config.Type, obj)
    IN  IF ~current.ok
        THEN Ret("api", Len(current.calls), <<>>, current.calls) @@ [store |-> store]
        ELSE Ret(IF r.ok THEN "" ELSE "api", IF r.ok THEN 0 ELSE Len(r.calls), <<>>, r.calls)
             @@ [store |-> r.store]

\* the loop of secret.create and secret.update over the comma-separated
\* key=value pairs: the map built, or an error at the first malformed pair
RECURSIVE parsePairs(_, _)
parsePairs(pairs, data) ==
    IF pairs = <<>> THEN [err |-> FALSE, data |-> data]
    ELSE LET parts == SplitN2(Head(pairs), <<"=">>)
         IN  IF Len(parts) # 2 THEN [err |-> TRUE, data |-> data]
             ELSE parsePairs(Tail(pairs),
                             Put(data, TrimSpace(parts[1]), TrimSpace(parts[2])))

\* the config type a tool argument names: "" is configmap, others are invalid
ConfigTypeOf(configType) ==
    IF configType \in {"", "configmap"} THEN "configmap"
    ELSE IF configType = "secret" THEN "secret" ELSE "invalid"

\* the config.set handler
config_set(store, fail, args) ==
    LET cfgType == ConfigTypeOf(args.type)
        got == ConfigGet(store, <<>>, fail, args.namespace, args.name, cfgType)
        fresh == [Name |-> args.name, Namespace |-> args.namespace, Type |-> cfgType,
                  Data |-> <<>>, Labels |-> <<>>]
        config == SetValue(IF got.err THEN fresh ELSE got.val, args.key, args.value)
    IN  IF cfgType = "invalid" THEN Ret("validation", 0, <<>>, <<>>) @@ [store |-> store]
        ELSE IF got.err /\ ~args.create THEN got
        ELSE IF ~got.err THEN ConfigUpdate(store, got.calls, fail, config)
        ELSE ConfigCreate(store, got.calls, fail, config)

\* the secret.create handler
secret_create(store, fail, args) ==
    LET data == parsePairs(SplitBy(args.data, <<",">>), <<>>)
        labels0 == IF args.app # <<>> THEN Put(<<>>, <<"app.kubernetes.io/name">>, args.app)
                   ELSE <<>>
        labels == IF args.labels # <<>>
                  THEN parsePairs(SplitBy(args.labels, <<",">>), labels0)
                  ELSE [err |-> FALSE, data |-> labels0]
    IN  IF data.err \/ labels.err THEN Ret("validation", 0, <<>>, <<>>) @@ [store |-> store]
        ELSE ConfigCreate(store, <<>>, fail,
                          [Name |-> args.name, Namespace |-> args.namespace, Type |-> "secret",
                           Data |-> data.data, Labels |-> labels.data])

\* the secret.update handler
secret_update(store, fail, args) ==
    LET secret == ConfigGet(store, <<>>, fail, args.namespace, args.name, "secret")
        newData == parsePairs(SplitBy(args.data, <<",">>), <<>>)
        merged == [k \in DOMAIN secret.val.Data \cup DOMAIN newData.data |->
                     IF k \in DOMAIN newData.data THEN newData.data[k]
                     ELSE secret.val.Data[k]]
        invalid == Ret("validation", 0, <<>>, secret.calls) @@ [store |-> store]
    IN  IF secret.err THEN secret
        ELSE IF args.key # <<>> /\ args.value # <<>>
        THEN ConfigUpdate(store, secret.calls, fail, SetValue(secret.val, args.key, args.value))
        ELSE IF args.data # <<>>
        THEN (IF newData.err THEN invalid
              ELSE ConfigUpdate(store, secret.calls, fail,
                                [secret.val EXCEPT !.Data = IF args.merge THEN merged
                                                            ELSE newData.data]))
        ELSE invalid

\* the loop of config.merge over the references: each is checked and then
\* fetched before the next one is looked at; the value is the data merged so
\* far, later configurations taking precedence (MergeConfigs)
RECURSIVE mergeRefs(_, _, _, _, _, _)
mergeRefs(store, calls, fail, cfgType, refs, data) ==
    IF refs = <<>> THEN Ret("", 0, data, calls)
    ELSE LET parts == SplitBy(TrimSpace(Head(refs)), <<"/">>)
             got == ConfigGet(store, calls, fail, parts[1], parts[2], cfgType)
         IN  IF Len(parts) # 2 THEN Ret("validation", 0, <<>>, calls)
             ELSE IF got.err THEN Ret("api", got.wraps, <<>>, got.calls)
             ELSE mergeRefs(store, got.calls, fail, cfgType, Tail(refs),
                            [k \in DOMAIN data \cup DOMAIN got.val.Data |->
                               IF k \in DOMAIN got.val.Data THEN got.val.Data[k] ELSE data[k]])

\* the config.merge handler
config_merge(store, fail, args) ==
    IF ConfigTypeOf(args.type) = "invalid" THEN Ret("validation", 0, <<>>, <<>>) @@ [store |-> store]
    ELSE mergeRefs(store, <<>>, fail, ConfigTypeOf(args.type),
                   SplitBy(args.configs, <<",">>), <<>>) @@ [store |-> store]

(***************************************************************************)
(* The cluster_list tool                                                   *)
(***************************************************************************)
\* (c *Cluster) IsReady()
IsReady(c) ==
    c.Status.Phase = "Provisioned" /\ c.Status.InfrastructureReady /\ c.Status.ControlPlaneReady

\* (c *Cluster) GetProvider()
GetProvider(c) ==
    LET kind == IF c.Spec.InfrastructureRef # Nil
                THEN NameChars[c.Spec.InfrastructureRef.Kind] ELSE <<>>
    IN  IF "cluster.x-k8s.io/provider" \in DOMAIN c.Labels
        THEN c.Labels["cluster.x-k8s.io/provider"]
        ELSE IF Len(kind) > 7 /\ SubSeq(kind, Len(kind) - 6, Len(kind)) = NameChars["Cluster"]
        THEN NameOf(SubSeq(kind, 1, Len(kind) - 7))
        ELSE "unknown"

\* FilterByProvider(clusters, provider)
FilterByProvider(clusters, provider) ==
    IF provider = "" THEN clusters
    ELSE SelectSeq(clusters, LAMBDA c : GetProvider(c) = provider)

\* a filter that keeps the clusters that are not ready
ClusterFilterByStatusNot(clusters, ready) ==
    SelectSeq(clusters, LAMBDA c : IsReady(c) # ready)

\* FilterByStatus(clusters, ready) of the cluster package
ClusterFilterByStatus(clusters, ready) ==
    SelectSeq(clusters, LAMBDA c : IsReady(c) = ready)

\* what the cluster_list handler writes for a cluster
ClusterLine(c) ==
    [Name |-> c.Name, Namespace |-> c.Namespace, Organization |-> GetOrganization(c),
     Provider |-> GetProvider(c), Status |-> c.Status.Phase, Ready |-> IsReady(c)]

\* the cluster_list handler: the value is the list of the clusters written
cluster_list(nss, objs, fail, args) ==
    LET written(clusters) == [i \in 1..Len(clusters) |-> ClusterLine(clusters[i])]
        readyOnes(clusters) ==
            IF args.readyOnly THEN ClusterFilterByStatus(clusters, TRUE) ELSE clusters
        afterList(r) ==
            IF r.err THEN r
            ELSE [r EXCEPT !.val = written(readyOnes(FilterByProvider(r.val, args.provider)))]
    IN  afterList(
          IF args.organization # ""
          THEN ListByOrganization(nss, objs, <<>>, fail, "Cluster", args.organization,
                                  NoSelector)
          ELSE List(objs, <<>>, fail, "Cluster", args.namespace, args.labels))

(***************************************************************************)
(* The app_create tool                                                     *)
(***************************************************************************)
\* the arguments of a tool call: a map from names to values; the handler
\* reads name, namespace, catalog, app, version, target-namespace,
\* in-cluster, config-name and user-config-name
getStringArg(args, key) ==
    IF key \in DOMAIN args /\ args[key].t = "str" THEN args[key].s ELSE ""

\* the app_create handler
app_create(objs, fail, args) ==
    LET namespace == args["namespace"].s
        targetNamespace == IF getStringArg(args, "target-namespace") = ""
                           THEN args["app"].s ELSE getStringArg(args, "target-namespace")
        inCluster == IF "in-cluster" \in DOMAIN args /\ args["in-cluster"].t = "bool"
                     THEN args["in-cluster"].b ELSE TRUE
        reference(configName) ==
            IF configName = "" THEN Nil
            ELSE [nil |-> FALSE,
                  ConfigMap |-> [nil |-> FALSE, Name |-> configName, Namespace |-> namespace],
                  Secret |-> Nil]
        app ==
            [Name |-> args["name"].s, Namespace |-> namespace,
             Spec |-> [Catalog |-> args["catalog"].s, Name |-> args["app"].s,
                       Namespace |-> targetNamespace, Version |-> args["version"].s,
                       KubeConfig |-> [InCluster |-> inCluster, Secret |-> Nil],
                       Config |-> reference(getStringArg(args, "config-name")),
                       UserConfig |-> reference(getStringArg(args, "user-config-name"))],
             Status |-> ZeroAppStatus]
    IN  Create(objs, <<>>, fail, app)

\* the app_update handler: the App is read, the fields the arguments name are
\* set in the record and the record is handed to Update
app_update(objs, fail, args) ==
    LET namespace == args["namespace"].s
        version == getStringArg(args, "version")
        configName == getStringArg(args, "config-name")
        userConfigName == getStringArg(args, "user-config-name")
        \* the AppConfig with its ConfigMap reference naming configName
        referring(config, configName2) ==
            [(IF config = Nil THEN [nil |-> FALSE, ConfigMap |-> Nil, Secret |-> Nil]
              ELSE config)
               EXCEPT !.ConfigMap = [nil |-> FALSE, Name |-> configName2,
                                     Namespace |-> namespace]]
        changed(a) ==
            [a EXCEPT !.Spec.Version = IF version # "" THEN version ELSE @,
                      !.Spec.Config = IF configName # "" THEN referring(@, configName) ELSE @,
                      !.Spec.UserConfig = IF userConfigName # ""
                                          THEN referring(@, userConfigName) ELSE @]
        afterGet(currentApp) ==
            IF currentApp.err THEN [currentApp EXCEPT !.val = <<>>] @@ [objs |-> objs]
            ELSE Update(objs, currentApp.calls, fail, "App", changed(currentApp.val))
    IN  afterGet(Get(objs, <<>>, fail, "App", namespace, args["name"].s))

(***************************************************************************)
(* The resource provider: a resource is read by its URI.                   *)
(***************************************************************************)
\* entry.Name == searchName, for a name held as a whole and a search name
\* held by its characters
NameIs(name, chars) == name \in DOMAIN NameChars /\ NameChars[name] = chars

\* &SchemaResourceContent{...} of getSchemaResource
SchemaResourceContent(ruri, targetEntry) ==
    [AppName |-> ruri.Name, Version |-> ruri.Version,
     Schema |-> [type |-> "object", title |-> targetEntry.Spec.Chart.Name,
                 description |-> targetEntry.Spec.Chart.Description]]

\* a lookup that answers a missing entry with an empty schema
getSchemaResourceEmpty(objs, calls, fail, ruri) ==
    LET afterList(entries) ==
            IF entries.err THEN Ret("api", entries.wraps, <<>>, entries.calls)
            ELSE Ret("", 0, [AppName |-> ruri.Name, Version |-> ruri.Version, Schema |-> <<>>],
                     entries.calls)
    IN  afterList(List(objs, calls, fail, "AppCatalogEntry", "", NoSelector))

\* (p *Provider) getSchemaResource
getSchemaResource(objs, calls, fail, ruri) ==
    LET searchName == ruri.Catalog \o <<"-">> \o ruri.Name \o <<"-">> \o ruri.Version
        target(found, entries) ==
            IF found = <<>> THEN Ret("notfound", 0, <<>>, entries.calls)
            ELSE Ret("", 0, SchemaResourceContent(ruri, Head(found)), entries.calls)
        afterList(entries) ==
            IF entries.err THEN Ret("api", entries.wraps, <<>>, entries.calls)
            ELSE target(SelectSeq(entries.val, LAMBDA entry : NameIs(entry.Name, searchName)),
                        entries)
    IN  afterList(List(objs, calls, fail, "AppCatalogEntry", "", NoSelector))

\* isBreakingChange(newVersion, oldVersion): the parts before the first dot,
\* a leading v left off, differ
isBreakingChange(newVersion, oldVersion) ==
    LET major(version) ==
            LET first == SplitBy(NameChars[version], <<".">>)[1]
            IN  IF HasPrefix(first, <<"v">>) THEN Tail(first) ELSE first
    IN  major(newVersion) # major(oldVersion)

\* entry.Spec.DateCreated.Format("2006-01-02") of getChangelogResource, or the
\* empty string: the day as a number, 0 for the empty string, which is below
\* every day
ChangelogDate(entry) ==
    IF entry.Spec.DateCreated # Nil THEN entry.Spec.DateCreated.unix ELSE 0

\* sort.Slice(versions, ...) with versions[i].date > versions[j].date, for the
\* short lists on which it is an insertion sort: item is put behind the
\* items of sorted that are not older
InsertByDate(sorted, item) ==
    LET older == {i \in DOMAIN sorted : item.date > sorted[i].date}
        at == IF older = {} THEN Len(sorted) + 1 ELSE CHOOSE i \in older : \A j \in older : i <= j
    IN  SubSeq(sorted, 1, at - 1) \o <<item>> \o SubSeq(sorted, at, Len(sorted))

RECURSIVE SortVersions(_, _)
SortVersions(sorted, rest) ==
    IF rest = <<>> THEN sorted ELSE SortVersions(InsertByDate(sorted, Head(rest)), Tail(rest))

\* (p *Provider) getChangelogResource
getChangelogResource(objs, calls, fail, ruri) ==
    LET appPrefix == ruri.Catalog \o <<"-">> \o ruri.Name \o <<"-">>
        item(entry) == [version |-> entry.Spec.Chart.Version, date |-> ChangelogDate(entry),
                        description |-> entry.Spec.Chart.Description, entry |-> entry.Name]
        changelog(versions) ==
            [i \in DOMAIN versions |->
               [Version |-> versions[i].version, Date |-> versions[i].date,
                Description |-> versions[i].description,
                Breaking |-> /\ i < Len(versions)
                             /\ isBreakingChange(versions[i].version, versions[i + 1].version)]]
        selected(list) == SelectSeq(list, LAMBDA entry : HasPrefix(NameChars[entry.Name], appPrefix))
        content(list) ==
            [AppName |-> ruri.Name, Catalog |-> ruri.Catalog,
             Entries |-> changelog(SortVersions(<<>>, [i \in DOMAIN list |-> item(list[i])]))]
        afterList(entries) ==
            IF entries.err THEN Ret("api", entries.wraps, <<>>, entries.calls)
            ELSE Ret("", 0, content(selected(entries.val)), entries.calls)
    IN  afterList(List(objs, calls, fail, "AppCatalogEntry", "", NoSelector))

\* (p *Provider) GetResource for a URI that is no resource URI, a schema URI
\* or a changelog URI; the fetch functions of the other resource types are
\* not modelled
GetResource(objs, calls, fail, u) ==
    LET dispatch(resourceURI) ==
            IF resourceURI.isNil THEN Ret("parse", 0, <<>>, calls)
            ELSE IF resourceURI.Type = ResourceTypeChangelog
            THEN getChangelogResource(objs, calls, fail, resourceURI)
            ELSE getSchemaResource(objs, calls, fail, resourceURI)
    IN  dispatch(ParseResourceURI(u))

\* strings.Join(parts, "-")
RECURSIVE JoinDash(_)
JoinDash(parts) ==
    IF Len(parts) = 0 THEN <<>>
    ELSE IF Len(parts) = 1 THEN parts[1]
    ELSE parts[1] \o <<"-">> \o JoinDash(Tail(parts))

\* the loop of ListResources over the apps: the app URI of each and, where
\* the app refers to a configuration, its config URI
RECURSIVE appResources(_)
appResources(apps) ==
    IF apps = <<>> THEN <<>>
    ELSE LET app == Head(apps)
             place == NameChars[app.Namespace] \o Slash \o NameChars[app.Name]
         IN  <<[URI |-> AppS \o SchemeSep \o place]>>
             \o (IF app.Spec.Config # Nil \/ app.Spec.UserConfig # Nil
                 THEN <<[URI |-> ConfigS \o SchemeSep \o place \o Slash \o ValuesS]>>
                 ELSE <<>>)
             \o appResources(Tail(apps))

\* the loop of ListResources over the catalog entries: a schema URI for each
\* entry with a chart version and a changelog URI for the first entry of each
\* catalog and app; appMap holds the catalog/app pairs met so far
RECURSIVE entryResources(_, _)
entryResources(entries, appMap) ==
    IF entries = <<>> THEN <<>>
    ELSE LET entry == Head(entries)
             parts == SplitBy(NameChars[entry.Name], <<"-">>)
             catalogName == parts[1]
             appName == JoinDash(SubSeq(parts, 2, Len(parts) - 1))
             key == catalogName \o Slash \o appName
         IN  IF Len(parts) >= 2
             THEN (IF entry.Spec.Chart.Version # ""
                   THEN <<[URI |-> SchemaS \o SchemeSep \o key \o Slash
                                     \o NameChars[entry.Spec.Chart.Version]]>>
                   ELSE <<>>)
                  \o (IF key \notin appMap THEN <<[URI |-> ChangelogS \o SchemeSep \o key]>>
                      ELSE <<>>)
                  \o entryResources(Tail(entries), appMap \cup {key})
             ELSE entryResources(Tail(entries), appMap)

\* (p *Provider) ListResources: of each ResourceMetadata the URI
ListResources(objs, fail) ==
    LET afterEntries(resources, entries) ==
            IF entries.err THEN Ret("api", entries.wraps, <<>>, entries.calls)
            ELSE Ret("", 0, resources \o entryResources(entries.val, {}), entries.calls)
        catalogResources(catalogs) ==
            [i \in DOMAIN catalogs |-> [URI |-> CatalogS \o SchemeSep \o NameChars[catalogs[i].Name]]]
        afterCatalogs(resources, catalogs) ==
            IF catalogs.err THEN Ret("api", catalogs.wraps, <<>>, catalogs.calls)
            ELSE afterEntries(resources \o catalogResources(catalogs.val),
                              List(objs, catalogs.calls, fail, "AppCatalogEntry", "", NoSelector))
        afterApps(apps) ==
            IF apps.err THEN Ret("api", apps.wraps, <<>>, apps.calls)
            ELSE afterCatalogs(appResources(apps.val),
                               List(objs, apps.calls, fail, "Catalog", "", NoSelector))
    IN  afterApps(List(objs, <<>>, fail, "App", "", NoSelector))

(***************************************************************************)
(* SpecObjects: the resource clients and the app and cluster tools are     *)
(* invoked, one invocation at a time, against a server holding two apps, a *)
(* catalog, a catalog entry and a cluster in three namespaces              *)
(***************************************************************************)
Invocation(op, args, r) ==
    [op |-> op, args |-> args, calls |-> r.calls, err |-> r.err,
     errKind |-> r.errKind, wraps |-> r.wraps, val |-> r.val]

NoInvocation == Invocation("", <<>>, Ret("", 0, <<>>, <<>>))

\* the sets of failing calls for an operation that makes at most n calls
FailSets(n) == SUBSET (1..n)

TeamX == [k |-> "team", v |-> "x"]

\* a reference to an object by name and namespace, as a tree holds it
RefNode(name, namespace) == MapV([name |-> StrV(name), namespace |-> StrV(namespace)])

\* the spec and status a well-formed object of each kind carries
GoodSpec(kind) ==
    CASE kind = "App" ->
           [spec |-> MapV([catalog |-> StrV("cat"), name |-> StrV("x"),
                           namespace |-> StrV("default"), version |-> StrV("1.0.0"),
                           kubeConfig |-> MapV([inCluster |-> BoolV(FALSE),
                                                secret |-> RefNode("c2-kubeconfig", "org-a")])]),
            status |-> MapV([version |-> StrV("1.0.0"),
                             release |-> MapV([status |-> StrV("deployed")])])]
      [] kind = "Catalog" ->
           [spec |-> MapV([title |-> StrV("Cat"),
                           storage |-> MapV([type |-> StrV("helm"), URL |-> StrV("https://x")]),
                           repositories |-> ListV(<<MapV([type |-> StrV("helm"),
                                                         URL |-> StrV("https://x")]),
                                                    StrV("junk")>>)])]
      [] kind = "AppCatalogEntry" ->
           [spec |-> MapV([appName |-> StrV("x"), appVersion |-> StrV("1.0.0"),
                           catalog |-> MapV([name |-> StrV("cat")]),
                           chart |-> MapV([name |-> StrV("x"),
                                           keywords |-> ListV(<<StrV("web"), IntV(Int64(0, 7))>>)]),
                           dateCreated |-> StrV("2024-01-01T00:00:00Z"),
                           dateUpdated |-> StrV("yesterday")])]
      [] kind = "Cluster" ->
           [spec |-> MapV([clusterNetwork |-> MapV([apiServerPort |-> IntV(Int64(0, 6443))]),
                           infrastructureRef |-> MapV([kind |-> StrV("AWSCluster"),
                                                       name |-> StrV("c1")])]),
            status |-> MapV([phase |-> StrV("Provisioned"),
                             infrastructureReady |-> BoolV(TRUE),
                             controlPlaneReady |-> BoolV(TRUE)])]

\* the tree the server holds under key: spec is a map ("map"), absent
\* ("none") or a string ("bad")
Tree(key, variant) ==
    LET labels == IF key[1] = "Cluster" THEN (OrganizationLabel :> StrV("a"))
                  ELSE IF key[3] = "app1" THEN [team |-> StrV("x")]
                  ELSE <<>>
        base == [apiVersion |-> StrV("v1"), kind |-> StrV(key[1]),
                 metadata |-> MapV([name |-> StrV(key[3]), namespace |-> StrV(key[2]),
                                    resourceVersion |-> StrV(RVString(1)),
                                    labels |-> MapV(labels)])]
    IN  CASE variant = "map" -> base @@ GoodSpec(key[1])
          [] variant = "none" -> base
          [] variant = "bad" -> base @@ [spec |-> StrV("oops")]

\* the stores: every object well-formed, or one of them without a spec or
\* with a spec that is not a map
ObjectStores ==
    {[key \in {ObjKeys[i] : i \in 1..Len(ObjKeys)} |->
        Tree(key, IF odd # <<>> /\ key = odd[1] THEN odd[2] ELSE "map")] :
       odd \in {<<>>} \cup ({ObjKeys[i] : i \in 1..Len(ObjKeys)} \X {"none", "bad"})}

Namespace(name, labels) == [Name |-> name, Labels |-> labels]

\* the organization namespace carries the organization label or only the prefix
NamespaceLists ==
    {<<Namespace("default", <<>>), Namespace("org-a", l),
       Namespace("workload-c1", ("giantswarm.io/owner" :> "a"))>> :
       l \in {<<>>, (OrganizationLabel :> "true")}}

InitObjects ==
    /\ uri = <<>> /\ loc = NoLoc /\ str = <<>> /\ loc2 = NoLoc /\ upc = "idle"
    /\ namespaces \in NamespaceLists
    /\ objects \in ObjectStores
    /\ cfg = <<>>
    /\ inv = NoInvocation
    /\ FunIdle

Kinds == {"App", "Catalog", "AppCatalogEntry", "Cluster"}
NamespaceArgs == {"", "org-a", "default"}
NameArgs == {"app1", "cat", "cat-x-1", "c1"}

CallList ==
    \E kind \in Kinds, namespace \in NamespaceArgs, sel \in {NoSelector, TeamX}, fail \in FailSets(1) :
        /\ inv = NoInvocation
        /\ kind # "App" => sel = NoSelector
        /\ inv' = Invocation("List", [kind |-> kind, namespace |-> namespace, labels |-> sel],
                             List(objects, <<>>, fail, kind, namespace, sel))
        /\ UNCHANGED <<uriVars, funVars, namespaces, objects, cfg>>

CallGet ==
    \E kind \in Kinds, namespace \in NamespaceArgs \ {""}, name \in NameArgs, fail \in FailSets(1) :
        /\ inv = NoInvocation
        /\ inv' = Invocation("Get", [kind |-> kind, namespace |-> namespace, name |-> name],
                             Get(objects, <<>>, fail, kind, namespace, name))
        /\ UNCHANGED <<uriVars, funVars, namespaces, objects, cfg>>

\* the resourceVersion of the object under key is below the highest
Updatable(key) ==
    key \in DOMAIN objects => RVNumber(GetResourceVersion(objects[key])) < MaxRV

\* Update with a record read earlier and changed (a new version or title)
CallUpdate ==
    \E key \in {ObjKeys[i] : i \in 1..Len(ObjKeys)}, fail \in FailSets(2) :
        /\ inv = NoInvocation
        /\ key[1] \in {"App", "Catalog"}
        /\ Updatable(key)
        /\ LET old == Decode(key[1], objects[key]).v
               rec == IF key[1] = "App" THEN [old EXCEPT !.Spec.Version = "2.0.0"]
                      ELSE [old EXCEPT !.Spec.Title = "New"]
               r == Update(objects, <<>>, fail, key[1], rec)
           IN  /\ inv' = Invocation("Update", [kind |-> key[1], rec |-> rec], r)
               /\ objects' = r.objs
        /\ UNCHANGED <<uriVars, funVars, namespaces, cfg>>

CallUpdateVersion ==
    \E namespace \in {"org-a", "workload-c1"}, name \in {"app1", "app2"}, fail \in FailSets(3) :
        /\ inv = NoInvocation
        /\ Updatable(<<"App", namespace, name>>)
        /\ LET r == UpdateVersion(objects, <<>>, fail, namespace, name, "2.0.0")
           IN  /\ inv' = Invocation("UpdateVersion",
                                    [namespace |-> namespace, name |-> name], r)
               /\ objects' = r.objs
        /\ UNCHANGED <<uriVars, funVars, namespaces, cfg>>

CallListByOrganization ==
    \E kind \in {"App", "Cluster"}, org \in {"a", "org-a"}, sel \in {NoSelector, TeamX},
       fail \in FailSets(3) :
        /\ inv = NoInvocation
        /\ kind = "Cluster" => sel = NoSelector
        /\ inv' = Invocation("ListByOrganization",
                             [kind |-> kind, organization |-> org, labels |-> sel],
                             ListByOrganization(namespaces, objects, <<>>, fail, kind, org, sel))
        /\ UNCHANGED <<uriVars, funVars, namespaces, objects, cfg>>

CallListOrganizationNamespaces ==
    \E fail \in FailSets(2) :
        /\ inv = NoInvocation
        /\ inv' = Invocation("ListOrganizationNamespaces", <<>>,
                             ListOrganizationNamespaces(namespaces, <<>>, fail))
        /\ UNCHANGED <<uriVars, funVars, namespaces, objects, cfg>>

CallGetOrganizationNamespaces ==
    \E fail \in FailSets(2) :
        /\ inv = NoInvocation
        /\ inv' = Invocation("GetOrganizationNamespaces", <<>>,
                             GetOrganizationNamespaces(namespaces, <<>>, fail))
        /\ UNCHANGED <<uriVars, funVars, namespaces, objects, cfg>>

\* the arguments of app_list that take its branches
AppListArgs ==
    {a \in [namespace : {"", "org-a"}, organization : {"", "a"}, labels : {NoSelector, TeamX},
            status : {"", "deployed"}, catalog : {"", "cat"}, allOrgs : BOOLEAN,
            includeWorkloadClusters : BOOLEAN] :
        /\ a.organization # "" => (a.namespace = "" /\ ~a.allOrgs)
        /\ a.organization = "" => ~a.includeWorkloadClusters
        /\ a.status # "" => a.catalog # ""}

ToolAppList ==
    \E args \in AppListArgs, fail \in FailSets(4) :
        /\ inv = NoInvocation
        /\ inv' = Invocation("app_list", args, app_list(namespaces, objects, fail, args))
        /\ UNCHANGED <<uriVars, funVars, namespaces, objects, cfg>>

ToolClusterApps ==
    \E namespace \in {"", "org-a"}, org \in {"", "a"}, fail \in FailSets(5) :
        /\ inv = NoInvocation
        /\ inv' = Invocation("cluster_apps",
                             [cluster |-> "c1", namespace |-> namespace, organization |-> org],
                             cluster_apps(namespaces, objects, fail, "c1", namespace, org))
        /\ UNCHANGED <<uriVars, funVars, namespaces, objects, cfg>>

\* the URIs read: a schema URI of the entry held, of a version, an app and
\* a catalog not held, with a segment missing, and a URI of no known scheme
SchemaURIs ==
    {SchemaS \o SchemeSep \o path :
        path \in {<<"c", "a", "t", "/", "x", "/", "1">>, <<"c", "a", "t", "/", "x", "/", "2">>,
                  <<"c", "a", "t", "/", "a", "/", "1">>, <<"a", "/", "x", "/", "1">>,
                  <<"c", "a", "t", "/", "x">>}}
      \cup {<<"x">> \o SchemeSep \o <<"c", "a", "t", "/", "x", "/", "1">>}

CallGetResource ==
    \E u \in SchemaURIs, fail \in FailSets(1) :
        /\ inv = NoInvocation
        /\ inv' = Invocation("GetResource", [u |-> u],
                             GetResource(objects, <<>>, fail, u))
        /\ UNCHANGED <<uriVars, funVars, namespaces, objects, cfg>>

\* a field that is left out
Absent == [absent |-> TRUE]

\* the maps in which each key of fields (pairs of a key and its choices)
\* holds one of its choices, or is missing when the choice is Absent
RECURSIVE MapsOf(_)
MapsOf(fields) ==
    IF fields = <<>> THEN {<<>>}
    ELSE {IF v = Absent THEN m ELSE Put(m, fields[1][1], v) :
            v \in fields[1][2], m \in MapsOf(Tail(fields))}

\* the optional arguments of app_create: each is left out or given
CreateArgs ==
    {[name |-> StrV("new"), namespace |-> StrV("org-a"), catalog |-> StrV("cat"),
      app |-> StrV("x"), version |-> StrV("1.0.0")] @@ optional :
        optional \in MapsOf(<<
          <<"in-cluster", {Absent, BoolV(TRUE), BoolV(FALSE)}>>,
          <<"cluster", {Absent, StrV("c1")}>>,
          <<"target-namespace", {Absent, StrV("kube-system")}>>,
          <<"config-name", {Absent, StrV("values")}>>,
          <<"user-config-name", {Absent, StrV("user-values")}>> >>)}

ToolAppCreate ==
    \E args \in CreateArgs, fail \in FailSets(1) :
        /\ inv = NoInvocation
        /\ LET created(r) ==
                   /\ inv' = Invocation("app_create", args, r)
                   /\ objects' = r.objs
           IN  created(app_create(objects, fail, args))
        /\ UNCHANGED <<uriVars, funVars, namespaces, cfg>>

\* the result is handed to the caller; the next invocation may start
Return ==
    /\ inv # NoInvocation
    /\ inv' = NoInvocation
    /\ UNCHANGED <<uriVars, funVars, namespaces, objects, cfg>>

NextObjects ==
    \/ CallList \/ CallGet \/ CallUpdate \/ CallUpdateVersion
    \/ CallListByOrganization \/ CallListOrganizationNamespaces
    \/ CallGetOrganizationNamespaces \/ ToolAppList \/ ToolClusterApps
    \/ CallGetResource
    \/ Return

SpecObjects == InitObjects /\ [][NextObjects]_vars

(***************************************************************************)
(* SpecNamespaces: the organization namespaces are listed, one invocation  *)
(* at a time, against a server on which each of the namespaces org-a,      *)
(* org-b and acme is missing, present without labels or present with the   *)
(* organization label, next to the namespace default                       *)
(***************************************************************************)
OrgNamespaceLists ==
    {SelectSeq(<<Namespace("org-a", a), Namespace("default", d), Namespace("acme", c),
                Namespace("workload-c1", w), Namespace("org-b", b)>>,
               LAMBDA ns : ns.Labels # Absent) :
        a \in {Absent, <<>>, (OrganizationLabel :> "true")},
        b \in {Absent, <<>>, (OrganizationLabel :> "true")},
        c \in {Absent, <<>>, (OrganizationLabel :> "true"), (OrganizationLabel :> "a"),
               (OrganizationLabel :> "b")},
        d \in {<<>>, ("giantswarm.io/owner" :> "a")},
        w \in {<<>>, ("giantswarm.io/owner" :> "a"), ("giantswarm.io/owner" :> "b")}}

InitNamespaces ==
    /\ uri = <<>> /\ loc = NoLoc /\ str = <<>> /\ loc2 = NoLoc /\ upc = "idle"
    /\ namespaces \in OrgNamespaceLists
    /\ objects = <<>>
    /\ cfg = <<>>
    /\ inv = NoInvocation
    /\ FunIdle

\* the organization is named without or with the org- prefix
CallGetNamespacesByOrganization ==
    \E org \in {"a", "b", "org-a"}, fail \in FailSets(1) :
        /\ inv = NoInvocation
        /\ inv' = Invocation("GetNamespacesByOrganization", [organization |-> org],
                             GetNamespacesByOrganization(namespaces, <<>>, fail, org))
        /\ UNCHANGED <<uriVars, funVars, namespaces, objects, cfg>>

NextNamespaces ==
    \/ CallListOrganizationNamespaces \/ CallGetOrganizationNamespaces
    \/ CallGetNamespacesByOrganization
    \/ Return

SpecNamespaces == InitNamespaces /\ [][NextNamespaces]_vars

(***************************************************************************)
(* SpecClusters: cluster_list is invoked, one invocation at a time,        *)
(* against a server holding the clusters c1 and c2 in org-a and c3 in      *)
(* workload-c1. A cluster is ready, still provisioning, provisioned with   *)
(* an infrastructure that is not ready, or without status; its provider    *)
(* is named by the provider label, by the kind of its infrastructure       *)
(* reference (AWSCluster, or the bare Cluster), or by nothing.             *)
(***************************************************************************)
ClusterTree(key, st, pv) ==
    LET labels == IF pv = "label"
                  THEN (OrganizationLabel :> StrV("a")) @@ ("cluster.x-k8s.io/provider" :> StrV("aws"))
                  ELSE (OrganizationLabel :> StrV("a"))
        spec == CASE pv = "kind" ->
                       [infrastructureRef |-> MapV([kind |-> StrV("AWSCluster"),
                                                    name |-> StrV(key[3])])]
                  [] pv = "short" ->
                       [infrastructureRef |-> MapV([kind |-> StrV("Cluster"),
                                                    name |-> StrV(key[3])])]
                  [] OTHER -> <<>>
        base == [apiVersion |-> StrV("cluster.x-k8s.io/v1beta1"), kind |-> StrV("Cluster"),
                 metadata |-> MapV([name |-> StrV(key[3]), namespace |-> StrV(key[2]),
                                    resourceVersion |-> StrV(RVString(1)),
                                    labels |-> MapV(labels)]),
                 spec |-> MapV(spec)]
        status(phase, infra) ==
            MapV([phase |-> StrV(phase), infrastructureReady |-> BoolV(infra),
                  controlPlaneReady |-> BoolV(TRUE)])
    IN  CASE st = "ready" -> Put(base, "status", status("Provisioned", TRUE))
          [] st = "provisioning" -> Put(base, "status", status("Provisioning", TRUE))
          [] st = "infra" -> Put(base, "status", status("Provisioned", FALSE))
          [] OTHER -> base

ClusterStores ==
    LET k1 == <<"Cluster", "org-a", "c1">>
        k2 == MoreClusterKeys[1]
        k3 == MoreClusterKeys[2]
    IN  {(k1 :> ClusterTree(k1, st1, pv1)) @@ (k2 :> ClusterTree(k2, st2, pv2))
           @@ (k3 :> ClusterTree(k3, "ready", "label")) :
           st1 \in {"ready", "provisioning", "infra", "none"},
           pv1 \in {"label", "kind", "short", "none"},
           st2 \in {"ready", "provisioning", "infra", "none"},
           pv2 \in {"kind", "none"}}

InitClusters ==
    /\ uri = <<>> /\ loc = NoLoc /\ str = <<>> /\ loc2 = NoLoc /\ upc = "idle"
    /\ namespaces \in NamespaceLists
    /\ objects \in ClusterStores
    /\ cfg = <<>>
    /\ inv = NoInvocation
    /\ FunIdle

ClusterListArgs ==
    {a \in [namespace : {"", "org-a"}, organization : {"", "a"}, labels : {NoSelector},
            provider : {"", "aws", "AWS"}, readyOnly : BOOLEAN] :
        a.organization # "" => a.namespace = ""}

ToolClusterList ==
    \E args \in ClusterListArgs, fail \in FailSets(3) :
        /\ inv = NoInvocation
        /\ inv' = Invocation("cluster_list", args,
                             cluster_list(namespaces, objects, fail, args))
        /\ UNCHANGED <<uriVars, funVars, namespaces, objects, cfg>>

NextClusters == ToolClusterList \/ Return

SpecClusters == InitClusters /\ [][NextClusters]_vars

(***************************************************************************)
(* SpecCreate: app_create is invoked, one invocation at a time, against    *)
(* the server of SpecObjects                                               *)
(***************************************************************************)
NextCreate == ToolAppCreate \/ Return

SpecCreate == InitObjects /\ [][NextCreate]_vars

(***************************************************************************)
(* SpecUpdate: app_update is invoked, one invocation at a time, against    *)
(* the server of SpecObjects                                               *)
(***************************************************************************)
\* the arguments of app_update: each optional one is left out or given
UpdateArgs ==
    {[name |-> StrV(name), namespace |-> StrV("org-a")] @@ optional :
        name \in {"app1", "app2", "gone"},
        optional \in MapsOf(<<
          <<"version", {Absent, StrV("2.0.0")}>>,
          <<"config-name", {Absent, StrV("values")}>>,
          <<"user-config-name", {Absent, StrV("user-values")}>> >>)}

ToolAppUpdate ==
    \E args \in UpdateArgs, fail \in FailSets(3) :
        /\ inv = NoInvocation
        /\ Updatable(<<"App", args["namespace"].s, args["name"].s>>)
        /\ LET updated(r) ==
                   /\ inv' = Invocation("app_update", args, r)
                   /\ objects' = r.objs
           IN  updated(app_update(objects, fail, args))
        /\ UNCHANGED <<uriVars, funVars, namespaces, cfg>>

NextUpdate == ToolAppUpdate \/ Return

SpecUpdate == InitObjects /\ [][NextUpdate]_vars

(***************************************************************************)
(* SpecResources: the resources are listed and one of the schema and       *)
(* changelog URIs listed is read, against a server that holds the two      *)
(* apps, the catalog cat and up to four entries of that catalog: versions  *)
(* 1 and 2 and the pre-release 1-rc of the app x and version 1 of the app  *)
(* x-y. Entries are named catalog-app-version.                             *)
(***************************************************************************)
\* the tree of a catalog entry
EntryTree(name, appName, version, created) ==
    [apiVersion |-> StrV("v1"), kind |-> StrV("AppCatalogEntry"),
     metadata |-> MapV([name |-> StrV(name), namespace |-> StrV("default"),
                        resourceVersion |-> StrV(RVString(1))]),
     spec |-> MapV([appName |-> StrV(appName), catalog |-> MapV([name |-> StrV("cat")]),
                    chart |-> MapV(IF version = "" THEN [name |-> StrV(appName)]
                                   ELSE [name |-> StrV(appName), version |-> StrV(version)]),
                    dateCreated |-> StrV(created)])]

\* the entries the server may hold besides cat-x-1
MoreEntries ==
    (<<"AppCatalogEntry", "default", "cat-x-2">>
        :> EntryTree("cat-x-2", "x", "2", "2024-06-01T00:00:00Z")) @@
    (<<"AppCatalogEntry", "default", "cat-x-y-1">>
        :> EntryTree("cat-x-y-1", "x-y", "1", "2024-01-01T00:00:00Z")) @@
    (<<"AppCatalogEntry", "default", "cat-x-1-rc">>
        :> EntryTree("cat-x-1-rc", "x", "1-rc", "never"))

\* app1 with or without a reference to a configuration, cat-x-1 with or
\* without a chart version, and some of the other entries
ResourceStores ==
    {[key \in {ObjKeys[i] : i \in 1..Len(ObjKeys)} \cup more |->
        IF key \in more THEN MoreEntries[key]
        ELSE IF key[3] = "cat-x-1"
        THEN EntryTree("cat-x-1", "x", version, "2024-01-01T00:00:00Z")
        ELSE IF key[3] = "app1" /\ configured
        THEN [Tree(key, "map") EXCEPT
                !.spec = MapV(Put(@.m, "config",
                                  MapV([configMap |-> RefNode("c1-kubeconfig", "org-a")])))]
        ELSE Tree(key, "map")] :
       more \in SUBSET DOMAIN MoreEntries, version \in {"", "1"}, configured \in BOOLEAN}

InitResources ==
    /\ uri = <<>> /\ loc = NoLoc /\ str = <<>> /\ loc2 = NoLoc /\ upc = "idle"
    /\ namespaces = <<>>
    /\ objects \in ResourceStores
    /\ cfg = <<>>
    /\ inv = NoInvocation
    /\ FunIdle

CallListResources ==
    \E fail \in FailSets(3) :
        /\ inv = NoInvocation
        /\ inv' = Invocation("ListResources", <<>>, ListResources(objects, fail))
        /\ UNCHANGED <<uriVars, funVars, namespaces, objects, cfg>>

\* the caller reads one of the schema and changelog URIs of the listing it
\* was handed
CallGetListed ==
    \E i \in DOMAIN inv.val, fail \in FailSets(1) :
        /\ inv.op = "ListResources" /\ ~inv.err
        /\ ParseResourceURI(inv.val[i].URI).Type \in {ResourceTypeSchema, ResourceTypeChangelog}
        /\ inv' = Invocation("GetResource", [u |-> inv.val[i].URI],
                             GetResource(objects, <<>>, fail, inv.val[i].URI))
        /\ UNCHANGED <<uriVars, funVars, namespaces, objects, cfg>>

NextResources == CallListResources \/ CallGetListed \/ Return

SpecResources == InitResources /\ [][NextResources]_vars

(***************************************************************************)
(* SpecConfig: the config tools are invoked, one invocation at a time,     *)
(* against a server that may hold a ConfigMap and a Secret named n/c       *)
(***************************************************************************)
NsN == <<"n">>
NameC == <<"c">>
KeyK == <<"k">>

ConfigObject(data) ==
    [Name |-> NameC, Namespace |-> NsN, Labels |-> <<>>, Data |-> data,
     ResourceVersion |-> RVString(1)]

ConfigStores ==
    {[key \in present |-> ConfigObject(KeyK :> <<"v">>)] :
       present \in SUBSET {<<"configmap", NsN, NameC>>, <<"secret", NsN, NameC>>}}

InitConfig ==
    /\ uri = <<>> /\ loc = NoLoc /\ str = <<>> /\ loc2 = NoLoc /\ upc = "idle"
    /\ namespaces = <<>>
    /\ objects = <<>>
    /\ cfg \in ConfigStores
    /\ inv = NoInvocation
    /\ FunIdle

\* the resourceVersion of the stored object under key is below the highest
ConfigUpdatable(key) ==
    key \in DOMAIN cfg => RVNumber(cfg[key].ResourceVersion) < MaxRV

\* the data and labels arguments: none, well-formed ones and malformed ones
PairArgs ==
    {<<>>, <<"k", "=", "w">>, <<" ", "k", " ", "=", "w">>, <<"k">>,
     <<"k", "=", "w", ",">>, <<"k", "=", "w", ",", "j", "=", "=">>}

\* the configs argument of config.merge
RefArgs ==
    {<<"n", "/", "c">>, <<"n", "/", "c", ",", " ", "n", "/", "c">>,
     <<"n", "/", "c", ",", "n">>, <<"n">>, <<"n", "/", "c", "/", "x">>,
     <<"n", "/", "d">>, <<>>}

ToolConfigSet ==
    \E type \in {"", "configmap", "secret", "bogus"}, value \in {<<"v">>, <<"w">>},
       create \in BOOLEAN, fail \in FailSets(3) :
        /\ inv = NoInvocation
        /\ ConfigUpdatable(<<ConfigTypeOf(type), NsN, NameC>>)
        /\ LET args == [name |-> NameC, namespace |-> NsN, type |-> type,
                        key |-> KeyK, value |-> value, create |-> create]
               r == config_set(cfg, fail, args)
           IN  inv' = Invocation("config.set", args, r) /\ cfg' = r.store
        /\ UNCHANGED <<uriVars, funVars, namespaces, objects>>

ToolSecretCreate ==
    \E data \in PairArgs \ {<<>>}, labels \in {<<>>, <<"k", "=", "w">>, <<"k">>},
       app \in {<<>>, <<"x">>}, fail \in FailSets(1) :
        /\ inv = NoInvocation
        /\ LET args == [name |-> NameC, namespace |-> NsN, data |-> data,
                        app |-> app, labels |-> labels]
               r == secret_create(cfg, fail, args)
           IN  inv' = Invocation("secret.create", args, r) /\ cfg' = r.store
        /\ UNCHANGED <<uriVars, funVars, namespaces, objects>>

ToolSecretUpdate ==
    \E key \in {<<>>, KeyK}, value \in {<<>>, <<"w">>}, data \in PairArgs,
       merge \in BOOLEAN, fail \in FailSets(3) :
        /\ inv = NoInvocation
        /\ ConfigUpdatable(<<"secret", NsN, NameC>>)
        /\ LET args == [name |-> NameC, namespace |-> NsN, key |-> key, value |-> value,
                        data |-> data, merge |-> merge]
               r == secret_update(cfg, fail, args)
           IN  inv' = Invocation("secret.update", args, r) /\ cfg' = r.store
        /\ UNCHANGED <<uriVars, funVars, namespaces, objects>>

ToolConfigMerge ==
    \E configs \in RefArgs, type \in {"", "secret", "bogus"}, fail \in FailSets(2) :
        /\ inv = NoInvocation
        /\ LET args == [configs |-> configs, type |-> type, format |-> ""]
           IN  inv' = Invocation("config.merge", args, config_merge(cfg, fail, args))
        /\ UNCHANGED <<uriVars, funVars, namespaces, objects, cfg>>

NextConfig ==
    \/ ToolConfigSet \/ ToolSecretCreate \/ ToolSecretUpdate \/ ToolConfigMerge
    \/ Return

SpecConfig == InitConfig /\ [][NextConfig]_vars

(***************************************************************************)
(* SpecInterleave: two config.set invocations on the object n/c run at the *)
(* same time. Each invocation is a sequence of calls to the server, and    *)
(* the calls of the two interleave in any order; the server answers every  *)
(* call. In this specification inv holds, for each of the two, its         *)
(* position in the handler and the values the handler holds there.         *)
(***************************************************************************)
Procs == {1, 2}

\* the key each invocation sets
WrittenKey(p) == IF p = 1 THEN <<"x">> ELSE <<"y">>

SetArgs(p, type, create) ==
    [name |-> NameC, namespace |-> NsN, type |-> type, key |-> WrittenKey(p),
     value |-> <<"w">>, create |-> create]

\* an invocation that has not made a call yet
Started(args) ==
    [pc |-> "get", args |-> args, config |-> <<>>, current |-> <<>>,
     calls |-> <<>>, err |-> FALSE]

InitInterleave ==
    /\ uri = <<>> /\ loc = NoLoc /\ str = <<>> /\ loc2 = NoLoc /\ upc = "idle"
    /\ namespaces = <<>>
    /\ objects = <<>>
    /\ cfg \in ConfigStores
    /\ \E type \in {"configmap", "secret"}, create \in [Procs -> BOOLEAN] :
         inv = [p \in Procs |-> Started(SetArgs(p, type, create[p]))]
    /\ FunIdle

\* config.set up to the end of client.Get: the configuration read, or a new
\* one when there is none and create is set, with the key set in it
SetGet(p) ==
    /\ inv[p].pc = "get"
    /\ LET args == inv[p].args
           cfgType == ConfigTypeOf(args.type)
           got == ConfigGet(cfg, <<>>, {}, args.namespace, args.name, cfgType)
           fresh == [Name |-> args.name, Namespace |-> args.namespace, Type |-> cfgType,
                     Data |-> <<>>, Labels |-> <<>>]
           config == SetValue(IF got.err THEN fresh ELSE got.val, args.key, args.value)
       IN  inv' = [inv EXCEPT ![p] =
                     IF got.err /\ ~args.create
                     THEN [@ EXCEPT !.pc = "done", !.err = TRUE, !.calls = got.calls]
                     ELSE [@ EXCEPT !.pc = IF got.err THEN "create" ELSE "update",
                                    !.config = config, !.calls = got.calls]]
    /\ UNCHANGED <<uriVars, funVars, namespaces, objects, cfg>>

\* client.Update up to the end of its Get of the current object
SetFetchCurrent(p) ==
    /\ inv[p].pc = "update"
    /\ LET config == inv[p].config
           current == apiGetConfig(cfg, inv[p].calls, {}, config.Type, config.Namespace,
                                   config.Name)
       IN  inv' = [inv EXCEPT ![p] =
                     IF ~current.ok
                     THEN [@ EXCEPT !.pc = "done", !.err = TRUE, !.calls = current.calls]
                     ELSE [@ EXCEPT !.pc = "write", !.current = current.obj,
                                    !.calls = current.calls]]
    /\ UNCHANGED <<uriVars, funVars, namespaces, objects, cfg>>

\* the rest of client.Update: the object is submitted with the resourceVersion
\* of the current one
SetWrite(p) ==
    /\ inv[p].pc = "write"
    /\ LET config == inv[p].config
           obj == [ToObject(config) EXCEPT !.ResourceVersion = inv[p].current.ResourceVersion]
           r == apiUpdateConfig(cfg, inv[p].calls, {}, config.Type, obj)
       IN  /\ inv' = [inv EXCEPT ![p] = [@ EXCEPT !.pc = "done", !.err = ~r.ok,
                                                  !.calls = r.calls]]
           /\ cfg' = r.store
    /\ UNCHANGED <<uriVars, funVars, namespaces, objects>>

\* client.Create
SetCreate(p) ==
    /\ inv[p].pc = "create"
    /\ LET config == inv[p].config
           r == apiCreateConfig(cfg, inv[p].calls, {}, config.Type, ToObject(config))
       IN  /\ inv' = [inv EXCEPT ![p] = [@ EXCEPT !.pc = "done", !.err = ~r.ok,
                                                  !.calls = r.calls]]
           /\ cfg' = r.store
    /\ UNCHANGED <<uriVars, funVars, namespaces, objects>>

NextInterleave ==
    \E p \in Procs : SetGet(p) \/ SetFetchCurrent(p) \/ SetWrite(p) \/ SetCreate(p)

SpecInterleave == InitInterleave /\ [][NextInterleave]_vars

(***************************************************************************)
(* SpecDecode: the mappers applied to one tree. The tree has a spec that   *)
(* is a map; each of its fields is absent, holds a value of the type the   *)
(* mapper expects or holds a value of another type.                        *)
(***************************************************************************)
AppSpecs ==
    MapsOf(<<
      <<"catalog", {Absent, StrV("cat"), BoolV(TRUE)}>>,
      <<"kubeConfig",
        {Absent, StrV("x"), MapV([inCluster |-> BoolV(TRUE)]),
         MapV([inCluster |-> StrV("true")]),
         MapV([inCluster |-> BoolV(FALSE),
               secret |-> RefNode("c1-kubeconfig", "org-a")])}>>,
      <<"config",
        {Absent, MapV(<<>>), ListV(<<>>),
         MapV([configMap |-> RefNode("values", "org-a")]),
         MapV([configMap |-> StrV("values"), secret |-> MapV([name |-> StrV("s")])])}>>,
      <<"userConfig", {Absent, NullV, MapV([secret |-> RefNode("s", "org-a")])}>> >>)

AppStatuses ==
    {Absent, StrV("deployed"),
     MapV([version |-> StrV("1.0.0"), appVersion |-> IntV(Int64(0, 1)),
           release |-> MapV([status |-> StrV("deployed"), lastDeployed |-> BoolV(TRUE)])])}

CatalogSpecs ==
    MapsOf(<<
      <<"title", {Absent, StrV("Cat"), BoolV(TRUE)}>>,
      <<"storage",
        {Absent, StrV("helm"), MapV([type |-> StrV("helm"), URL |-> StrV("https://x")]),
         MapV([type |-> IntV(Int64(0, 1))])}>>,
      <<"repositories",
        {Absent, MapV(<<>>), ListV(<<>>),
         ListV(<<MapV([type |-> StrV("helm"), URL |-> StrV("https://x")]), StrV("junk"),
                 MapV([type |-> BoolV(TRUE)])>>)}>>,
      <<"config", {Absent, MapV(<<>>), MapV([secret |-> RefNode("s", "default")])}>> >>)

AppCatalogEntrySpecs ==
    MapsOf(<<
      <<"appName", {Absent, StrV("x"), IntV(Int64(0, 1))}>>,
      <<"catalog", {Absent, MapV([name |-> StrV("cat"), namespace |-> BoolV(TRUE)])}>>,
      <<"chart",
        {Absent, StrV("x"),
         MapV([name |-> StrV("x"), keywords |-> ListV(<<StrV("web"), IntV(Int64(0, 7))>>)]),
         MapV([version |-> BoolV(TRUE), keywords |-> StrV("web"), urls |-> ListV(<<>>)])}>>,
      <<"dateCreated",
        {Absent, StrV("2024-01-01T00:00:00Z"), StrV("yesterday"), IntV(Int64(0, 1))}>>,
      <<"dateUpdated", {Absent, StrV("2024-06-01T00:00:00Z"), StrV("01/06/2024")}>>,
      <<"restrictions",
        {Absent, BoolV(TRUE), MapV(<<>>), MapV([clusterSingleton |-> BoolV(TRUE)]),
         MapV([clusterSingleton |-> BoolV(FALSE), fixedNamespace |-> StrV("kube-system")]),
         MapV([clusterSingleton |-> StrV("true"), gpuInstances |-> BoolV(TRUE)])}>> >>)

ClusterSpecs ==
    MapsOf(<<
      <<"clusterNetwork",
        {Absent, StrV("x"), MapV([apiServerPort |-> IntV(Int64(0, 6443))]),
         MapV([apiServerPort |-> IntV(Int64(1, 6443))]),
         MapV([apiServerPort |-> StrV("6443"),
               services |-> MapV([cidrBlocks |-> ListV(<<StrV("10.0.0.0/16"), BoolV(TRUE)>>)]),
               pods |-> MapV(<<>>)])}>>,
      <<"infrastructureRef",
        {Absent, ListV(<<>>), MapV([kind |-> StrV("AWSCluster"), name |-> StrV("c1")]),
         MapV([kind |-> BoolV(TRUE), apiVersion |-> StrV("v1")])}>>,
      <<"controlPlaneRef", {Absent, MapV([name |-> StrV("cp")])}>> >>)

ClusterStatuses ==
    {Absent, StrV("Provisioned"),
     MapV([phase |-> StrV("Provisioned"), infrastructureReady |-> BoolV(TRUE),
           controlPlaneReady |-> StrV("true"),
           conditions |-> ListV(<<MapV([type |-> StrV("Ready"), status |-> BoolV(TRUE)]),
                                  StrV("junk")>>)]),
     MapV([phase |-> BoolV(TRUE), conditions |-> MapV(<<>>)])}

\* the tree of an object named ns/x with the given labels, spec and status
TreeOf(kind, labels, spec, status) ==
    LET meta == [name |-> StrV("x"), namespace |-> StrV("ns")]
        base == [apiVersion |-> StrV("v1"), kind |-> StrV(kind),
                 metadata |-> MapV(IF labels = Absent THEN meta ELSE Put(meta, "labels", labels)),
                 spec |-> MapV(spec)]
    IN  IF status = Absent THEN base ELSE Put(base, "status", status)

LabelNodes == {Absent, MapV([team |-> StrV("x")])}

DecodeInputs ==
    {[kind |-> "App", obj |-> TreeOf("App", Absent, sp, st)] :
       sp \in AppSpecs, st \in AppStatuses}
    \cup {[kind |-> "Catalog", obj |-> TreeOf("Catalog", l, sp, Absent)] :
            l \in LabelNodes, sp \in CatalogSpecs}
    \cup {[kind |-> "AppCatalogEntry", obj |-> TreeOf("AppCatalogEntry", Absent, sp, Absent)] :
            sp \in AppCatalogEntrySpecs}
    \cup {[kind |-> "Cluster", obj |-> TreeOf("Cluster", l, sp, st)] :
            l \in LabelNodes, sp \in ClusterSpecs, st \in ClusterStatuses}

InitDecode ==
    /\ URIIdle /\ APIIdle
    /\ arg \in DecodeInputs
    /\ res = <<>>
    /\ fpc = "start"

\* New<Kind>FromUnstructured(obj)
FromUnstructured ==
    /\ fpc = "start"
    /\ res' = Decode(arg.kind, arg.obj)
    /\ fpc' = "decoded"
    /\ UNCHANGED <<uriVars, apiVars, arg>>

\* ToUnstructured() of the record the mapper returned
ToTree ==
    /\ fpc = "decoded"
    /\ res' = [v |-> res.v, err |-> res.err, tree |-> ToUnstructured(arg.kind, res.v)]
    /\ fpc' = "encoded"
    /\ UNCHANGED <<uriVars, apiVars, arg>>

\* IsClusterApp() of the entry the mapper returned
CallIsClusterApp ==
    /\ fpc = "decoded"
    /\ arg.kind = "AppCatalogEntry"
    /\ res' = [v |-> res.v, err |-> res.err, isClusterApp |-> IsClusterApp(res.v)]
    /\ fpc' = "asked"
    /\ UNCHANGED <<uriVars, apiVars, arg>>

NextDecode == FromUnstructured \/ ToTree \/ CallIsClusterApp

SpecDecode == InitDecode /\ [][NextDecode]_vars

(***************************************************************************)
(* SpecValues: the functions of the configuration values applied to        *)
(* Configs a, b and c. Each Config holds some of the keys k and j, with    *)
(* the values v and w and the empty string; b and c may be nil.            *)
(***************************************************************************)
\* string to []byte and back: the bytes of the string are copied into a value
\* of the other type
bytesOf(s) == [bytes |-> [i \in 1..Len(s) |-> s[i]]]
stringOf(b) == [i \in 1..Len(b.bytes) |-> b.bytes[i]]

\* a merge in which the receiver keeps its value for a key both define
MergeWithFirstWins(c, other) ==
    [c EXCEPT !.Data = [k \in DOMAIN c.Data \cup DOMAIN other.Data |->
                          IF k \in DOMAIN c.Data THEN c.Data[k] ELSE other.Data[k]]]

\* (c *Config) MergeWith(other): c after the call
MergeWith(c, other) ==
    [c EXCEPT !.Data = [k \in DOMAIN c.Data \cup DOMAIN other.Data |->
                          IF k \in DOMAIN other.Data THEN other.Data[k] ELSE c.Data[k]]]

\* the loop of MergeConfigs over its arguments
RECURSIVE mergeEach(_, _)
mergeEach(merged, configs) ==
    IF configs = <<>> THEN merged
    ELSE LET config == Head(configs)
             withData(m) ==
                 [m EXCEPT !.Labels = [k \in DOMAIN merged.Labels \cup DOMAIN config.Labels |->
                                         IF k \in DOMAIN config.Labels
                                         THEN config.Labels[k] ELSE merged.Labels[k]]]
         IN  mergeEach(IF config = Nil THEN merged ELSE withData(MergeWith(merged, config)),
                       Tail(configs))

\* MergeConfigs(configs...)
MergeConfigs(configs) ==
    IF Len(configs) = 0 THEN Nil
    ELSE mergeEach([Name |-> configs[1].Name, Namespace |-> configs[1].Namespace,
                    Type |-> configs[1].Type, Data |-> <<>>, Labels |-> <<>>], configs)

\* a comparison that reports the receiver's value as the new one
DiffOldAsNew(c, other) ==
    [Added |-> [k \in {x \in DOMAIN other.Data : x \notin DOMAIN c.Data} |-> other.Data[k]],
     Modified |-> [k \in {x \in DOMAIN other.Data :
                            x \in DOMAIN c.Data /\ c.Data[x] # other.Data[x]} |->
                     [Old |-> other.Data[k], New |-> c.Data[k]]],
     Removed |-> [k \in {x \in DOMAIN c.Data : x \notin DOMAIN other.Data} |-> c.Data[k]]]

\* (c *Config) Diff(other)
Diff(c, other) ==
    [Added |-> [k \in {x \in DOMAIN other.Data : x \notin DOMAIN c.Data} |-> other.Data[k]],
     Modified |-> [k \in {x \in DOMAIN other.Data :
                            x \in DOMAIN c.Data /\ c.Data[x] # other.Data[x]} |->
                     [Old |-> c.Data[k], New |-> other.Data[k]]],
     Removed |-> [k \in {x \in DOMAIN c.Data : x \notin DOMAIN other.Data} |-> c.Data[k]]]

\* (d *ConfigDiff) HasChanges()
HasChanges(d) ==
    Cardinality(DOMAIN d.Added) > 0 \/ Cardinality(DOMAIN d.Modified) > 0
        \/ Cardinality(DOMAIN d.Removed) > 0

\* (c *Config) ToSecret()
ToSecret(c) ==
    [Name |-> c.Name, Namespace |-> c.Namespace, Labels |-> c.Labels, Type |-> "Opaque",
     Data |-> [k \in DOMAIN c.Data |-> bytesOf(c.Data[k])]]

\* a conversion that leaves the labels of the secret behind
NewConfigFromSecretNoLabels(secret) ==
    [Name |-> secret.Name, Namespace |-> secret.Namespace, Type |-> "secret",
     Data |-> [k \in DOMAIN secret.Data |-> stringOf(secret.Data[k])],
     Labels |-> <<>>]

\* NewConfigFromSecret(secret)
NewConfigFromSecret(secret) ==
    [Name |-> secret.Name, Namespace |-> secret.Namespace, Type |-> "secret",
     Data |-> [k \in DOMAIN secret.Data |-> stringOf(secret.Data[k])],
     Labels |-> secret.Labels]

KeyJ == <<"j">>
ValueKeys == {KeyK, KeyJ}
ValueStrings == {<<>>, <<"v">>, <<"w", "x">>}

DataMaps == UNION {[present -> ValueStrings] : present \in SUBSET ValueKeys}

ValueConfigs ==
    {[Name |-> name, Namespace |-> "ns", Type |-> type, Data |-> data, Labels |-> labels] :
        name \in {"one", "two"}, type \in {"configmap", "secret"}, data \in DataMaps,
        labels \in {<<>>, <<"team">> :> <<"a">>}}

ValueInputs ==
    {[a |-> a, b |-> b, c |-> c] :
        a \in {x \in ValueConfigs : x.Name = "one"},
        b \in {x \in ValueConfigs : x.Name = "two" /\ x.Type = "configmap"} \cup {Nil},
        c \in {x \in ValueConfigs : x.Name = "two" /\ x.Type = "secret"
                                      /\ x.Labels = <<>> /\ KeyJ \notin DOMAIN x.Data}
              \cup {Nil}}

InitValues ==
    /\ URIIdle
    /\ APIIdle
    /\ arg \in ValueInputs
    /\ res = <<>>
    /\ fpc = "start"

\* a.MergeWith(b)
CallMergeWith ==
    /\ fpc = "start"
    /\ arg.b # Nil
    /\ res' = [op |-> "MergeWith", out |-> MergeWith(arg.a, arg.b)]
    /\ fpc' = "done"
    /\ UNCHANGED <<uriVars, apiVars, arg>>

\* MergeConfigs(a, b, c)
CallMergeConfigs ==
    /\ fpc = "start"
    /\ res' = [op |-> "MergeConfigs", out |-> MergeConfigs(<<arg.a, arg.b, arg.c>>)]
    /\ fpc' = "done"
    /\ UNCHANGED <<uriVars, apiVars, arg>>

\* a.Diff(b) and HasChanges of the result
CallDiff ==
    /\ fpc = "start"
    /\ arg.b # Nil
    /\ LET diff(d) == [op |-> "Diff", out |-> d, changes |-> HasChanges(d)]
       IN  res' = diff(Diff(arg.a, arg.b))
    /\ fpc' = "done"
    /\ UNCHANGED <<uriVars, apiVars, arg>>

\* NewConfigFromSecret(a.ToSecret())
CallToSecret ==
    /\ fpc = "start"
    /\ res' = [op |-> "ToSecret", out |-> NewConfigFromSecret(ToSecret(arg.a))]
    /\ fpc' = "done"
    /\ UNCHANGED <<uriVars, apiVars, arg>>

NextValues == CallMergeWith \/ CallMergeConfigs \/ CallDiff \/ CallToSecret

SpecValues == InitValues /\ [][NextValues]_vars

(***************************************************************************)
(* SpecValidate: Validate applied to a Config and a schema. The Config     *)
(* holds some of the keys k and j; the schema lists none, one or both of   *)
(* them as required or optional and may give k a pattern.                  *)
(***************************************************************************)
\* regexp.MatchString(pattern, value) for the patterns used here: literal
\* characters, with ^ in front or $ behind or neither, and the pattern "("
\* that does not compile
MatchString(pattern, value) ==
    LET fromStart == Len(pattern) > 0 /\ pattern[1] = "^"
        toEnd == Len(pattern) > 0 /\ pattern[Len(pattern)] = "$"
        literal == SubSeq(pattern, IF fromStart THEN 2 ELSE 1,
                          IF toEnd THEN Len(pattern) - 1 ELSE Len(pattern))
    IN  [err |-> \E i \in DOMAIN pattern : pattern[i] = "(",
         matched |-> \E i \in 1..(Len(value) - Len(literal) + 1) :
                        /\ fromStart => i = 1
                        /\ toEnd => i + Len(literal) - 1 = Len(value)
                        /\ SubSeq(value, i, i + Len(literal) - 1) = literal]

\* the elements of a list of keys
KeysIn(keys) == {keys[i] : i \in DOMAIN keys}

\* (c *Client) Validate(config, schema). The errors are held as the set of
\* the messages, each a pair of its text and its key: the order, which for
\* the keys of Data is the order of a map iteration, is left out.
Validate(config, schema) ==
    LET missing == {<<"missing required key", key>> :
                      key \in {x \in KeysIn(schema.RequiredKeys) : x \notin DOMAIN config.Data}}
        isAllowed(key) == key \in KeysIn(schema.RequiredKeys) \/ key \in KeysIn(schema.OptionalKeys)
        \* !isAllowed && len(schema.RequiredKeys) > 0 || len(schema.OptionalKeys) > 0
        unexpected == {<<"unexpected key", key>> :
                         key \in {x \in DOMAIN config.Data :
                                    \/ (~isAllowed(x) /\ Len(schema.RequiredKeys) > 0)
                                    \/ Len(schema.OptionalKeys) > 0}}
        patterned == DOMAIN config.Data \cap DOMAIN schema.KeyPatterns
        invalid == {<<"invalid pattern", key>> :
                      key \in {x \in patterned :
                                 MatchString(schema.KeyPatterns[x], config.Data[x]).err}}
        unmatched == {<<"does not match pattern", key>> :
                        key \in {x \in patterned :
                                   LET m == MatchString(schema.KeyPatterns[x], config.Data[x])
                                   IN  ~m.err /\ ~m.matched}}
        errors == missing \cup unexpected \cup invalid \cup unmatched
    IN  [Valid |-> errors = {}, Errors |-> errors]

KeyLists == {<<>>, <<KeyK>>, <<KeyJ>>, <<KeyK, KeyJ>>}
Patterns == {<<"v">>, <<"^", "w", "$">>, <<"(">>}

Schemas ==
    {[RequiredKeys |-> required, OptionalKeys |-> optional, KeyPatterns |-> patterns] :
        required \in KeyLists, optional \in KeyLists,
        patterns \in {<<>>} \cup {KeyK :> p : p \in Patterns}}

InitValidate ==
    /\ URIIdle
    /\ APIIdle
    /\ arg \in {[config |-> a, schema |-> schema] :
                  a \in {x \in ValueConfigs : x.Name = "one" /\ x.Type = "configmap"
                                                /\ x.Labels = <<>>},
                  schema \in Schemas}
    /\ res = <<>>
    /\ fpc = "start"

\* client.Validate(config, schema)
CallValidate ==
    /\ fpc = "start"
    /\ res' = [op |-> "Validate", out |-> Validate(arg.config, arg.schema)]
    /\ fpc' = "done"
    /\ UNCHANGED <<uriVars, apiVars, arg>>

NextValidate == CallValidate

SpecValidate == InitValidate /\ [][NextValidate]_vars

(***************************************************************************)
(* SpecSort: SortByDate applied to a list of catalog entries. Each entry   *)
(* has a DateUpdated and a DateCreated, either of which may be nil.        *)
(***************************************************************************)
MaxEntries == 3
MaxDate == 2

\* the date SortByDate compares an entry by
EffectiveDate(e) == IF e.Spec.DateUpdated # Nil THEN e.Spec.DateUpdated ELSE e.Spec.DateCreated

\* a time that is not nil: the instant, as a number
Time(unix) == [nil |-> FALSE, unix |-> unix]

\* (t *Time) Before(u)
Before(t, u) == t.unix < u.unix

\* the inner loop of SortByDate from index j on: neighbours are swapped when
\* both have a date and the first is before the second
RECURSIVE bubblePass(_, _, _)
bubblePass(sorted, j, last) ==
    IF j > last THEN sorted
    ELSE LET date1 == EffectiveDate(sorted[j])
             date2 == EffectiveDate(sorted[j + 1])
         IN  bubblePass(IF date1 # Nil /\ date2 # Nil /\ Before(date1, date2)
                        THEN [sorted EXCEPT ![j] = sorted[j + 1], ![j + 1] = sorted[j]]
                        ELSE sorted,
                        j + 1, last)

\* the outer loop of SortByDate from pass i on (i counts from 0)
RECURSIVE bubble(_, _)
bubble(sorted, i) ==
    IF i >= Len(sorted) - 1 THEN sorted
    ELSE bubble(bubblePass(sorted, 1, Len(sorted) - i - 1), i + 1)

\* SortByDate(entries): the loops run on a copy of the list
SortByDate(entries) == bubble(entries, 0)

Dates == {Nil} \cup {Time(unix) : unix \in 1..MaxDate}

\* the lists of at most MaxEntries entries, named by their position
EntryLists ==
    UNION {{[i \in 1..n |-> [Name |-> i,
                             Spec |-> [DateUpdated |-> d[i][1], DateCreated |-> d[i][2]]]] :
              d \in [1..n -> Dates \X Dates]} : n \in 0..MaxEntries}

InitSort ==
    /\ URIIdle
    /\ APIIdle
    /\ arg \in EntryLists
    /\ res = <<>>
    /\ fpc = "start"

\* SortByDate(arg)
CallSortByDate ==
    /\ fpc = "start"
    /\ res' = [op |-> "SortByDate", out |-> SortByDate(arg)]
    /\ fpc' = "done"
    /\ UNCHANGED <<uriVars, apiVars, arg>>

NextSort == CallSortByDate

SpecSort == InitSort /\ [][NextSort]_vars

(***************************************************************************)
(* Claims about resource-URI addressing (checked under SpecURI)            *)
(***************************************************************************)
\* the number of "/" in a string
SlashCount(s) == Cardinality({i \in 1..Len(s) : s[i] = "/"})

\* what follows the first "://" of u (u holds one)
PathOf(u) == SubSeq(u, IndexOf(u, SchemeSep) + Len(SchemeSep), Len(u))

\* what precedes the first "://" of u (u holds one)
SchemeOf(u) == SubSeq(u, 1, IndexOf(u, SchemeSep) - 1)

KnownSchemes == {AppS, CatalogS, ConfigS, SchemaS, ChangelogS}

\* app://<ns>/<name> with no "/" in <ns> or <name>
IsTwoSegmentAppURI(u) ==
    /\ HasPrefix(u, AppS \o SchemeSep)
    /\ SlashCount(SubSeq(u, Len(AppS \o SchemeSep) + 1, Len(u))) = 1

\* C1 (as claimed): for every URI that ParseResourceURI accepts, parsing the
\* String() of the parsed locator yields a locator equal to the first one in
\* Type, Namespace, Name, Catalog, Version and SubPath; config URIs with exactly
\* two segments included.
C1_RoundTripAllSchemes ==
    upc = "done" =>
        /\ ~loc2.isNil
        /\ loc2.Type = loc.Type
        /\ loc2.Namespace = loc.Namespace
        /\ loc2.Name = loc.Name
        /\ loc2.Catalog = loc.Catalog
        /\ loc2.Version = loc.Version
        /\ loc2.SubPath = loc.SubPath

\* C2: every app://<ns>/<name> whose <ns> and <name> hold no "/" is accepted by
\* ParseResourceURI, and String() of the parsed locator is the original string.
C2_AppURIReproduced ==
    (upc # "start" /\ IsTwoSegmentAppURI(uri)) =>
        /\ upc # "failed"
        /\ ~loc.isNil /\ loc.err = ""
        /\ upc \in {"printed", "done"} => str = uri

\* C2's case: an app URI with a non-empty namespace and name has been printed
C2_Witness ==
    /\ upc = "printed"
    /\ IsTwoSegmentAppURI(uri)
    /\ loc.Namespace # <<>> /\ loc.Name # <<>>
    /\ str = uri

\* the number of segments each scheme's path must have; config takes 2 or more
SegmentCountAccepted(scheme, n) ==
    \/ scheme = AppS /\ n = 2
    \/ scheme = CatalogS /\ n = 1
    \/ scheme = ConfigS /\ n >= 2
    \/ scheme = SchemaS /\ n = 3
    \/ scheme = ChangelogS /\ n = 2

\* C3: an input whose scheme (the text before its first "://") is not app,
\* catalog, config, schema or changelog gets the "unknown resource type" error;
\* an input of a known scheme whose number of "/"-separated path segments is not
\* the scheme's (app 2, catalog 1, schema 3, changelog 2, config at least 2) gets
\* the error naming that scheme's path shape; no locator is returned with either.
C3_ParseErrors ==
    (upc # "start" /\ IndexOf(uri, SchemeSep) # 0) =>
        /\ SchemeOf(uri) \notin KnownSchemes =>
             /\ upc = "failed" /\ loc.isNil
             /\ loc.err = "unknown resource type"
        /\ ( /\ SchemeOf(uri) \in KnownSchemes
             /\ ~SegmentCountAccepted(SchemeOf(uri), SlashCount(PathOf(uri)) + 1) ) =>
             /\ upc = "failed" /\ loc.isNil
             /\ loc.err = ShapeError(SchemeType(SchemeOf(uri)))
             /\ loc.err # ""

\* C3's case: a schema URI with two segments was refused with the shape error
C3_Witness ==
    /\ upc = "failed"
    /\ SchemeOf(uri) = SchemaS
    /\ SlashCount(PathOf(uri)) + 1 = 2
    /\ loc.err = "invalid schema resource path: expected catalog/app/version"

(***************************************************************************)
(* Claims about the resource clients and tools (checked under SpecObjects) *)
(***************************************************************************)
\* the zero-valued Spec of each kind
ZeroSpec(kind) ==
    CASE kind = "App" -> ZeroAppSpec
      [] kind = "Catalog" -> ZeroCatalogSpec
      [] kind = "AppCatalogEntry" -> ZeroAppCatalogEntrySpec
      [] kind = "Cluster" -> ZeroClusterSpec

\* the tree has a spec, and it is not a string-keyed map
HasNonMapSpec(obj) == "spec" \in DOMAIN obj /\ obj["spec"].t # "map"

\* the stored objects of a kind that a list of namespace ns with selector sel covers
Listed(kind, ns, sel) ==
    {key \in DOMAIN objects :
        /\ key[1] = kind /\ (ns = "" \/ key[2] = ns)
        /\ Selects(sel, GetLabels(objects[key]))}

\* the invocation is one of the organization-wide listings
IsOrgWideListing ==
    \/ inv.op \in {"ListByOrganization", "ListOrganizationNamespaces",
                   "GetOrganizationNamespaces"}
    \/ (inv.op = "app_list" /\ (inv.args.organization # "" \/ inv.args.allOrgs))
    \/ (inv.op = "cluster_apps" /\ inv.args.namespace = "" /\ inv.args.organization # "")

\* C5 (as claimed): outside the organization-wide listing helpers, a failed
\* API call is the last call of its invocation, and the invocation ends with
\* an error that carries the error of that call.
C5_FailedCallEndsInvocation ==
    (inv.op # "" /\ ~IsOrgWideListing) =>
        \A i \in 1..Len(inv.calls) :
            ~inv.calls[i].ok =>
                /\ i = Len(inv.calls)
                /\ inv.err /\ inv.errKind = "api" /\ inv.wraps = i

\* two calls read the same data: both are lists or gets of the same resource,
\* namespace and name (the selectors may differ)
SameData(c, d) ==
    /\ c.verb \in {"list", "get"} /\ d.verb \in {"list", "get"}
    /\ c.resource = d.resource /\ c.ns = d.ns /\ c.name = d.name

C7_UpdateSubmitsFetchedVersion ==
    \A j \in 1..Len(inv.calls) :
        inv.calls[j].verb = "update" =>
            \E i \in 1..(j - 1) :
                /\ inv.calls[i].verb = "get" /\ inv.calls[i].ok
                /\ inv.calls[i].resource = inv.calls[j].resource
                /\ inv.calls[i].ns = inv.calls[j].ns
                /\ inv.calls[i].name = inv.calls[j].name
                /\ \A k \in (i + 1)..(j - 1) : inv.calls[k].verb # "get"
                /\ inv.calls[j].rv = inv.calls[i].rv

\* the list calls of an organization-wide listing, after the namespaces are known
ItemCalls == {i \in 1..Len(inv.calls) : inv.calls[i].resource # "Namespace"}

\* the record the listing owes for a stored object, and whether the filters
\* of the invocation let it through
Owed(key) == Decode(key[1], objects[key]).v
PassesFilters(key) ==
    /\ inv.op = "app_list" =>
          /\ inv.args.status \in {"", Owed(key).Status.Release.Status}
          /\ inv.args.catalog \in {"", Owed(key).Spec.Catalog}
    /\ key[1] = "Cluster" => GetOrganization(Owed(key)) = inv.args.organization

\* the invocation lists one kind over the namespaces of one or all organizations
IsOrgListing ==
    \/ inv.op = "ListByOrganization"
    \/ /\ inv.op = "app_list"
       /\ \/ (inv.args.organization # "" /\ inv.args.includeWorkloadClusters)
          \/ (inv.args.organization = "" /\ inv.args.allOrgs /\ inv.args.namespace = "")

\* the namespaces to list were obtained: the last namespace list succeeded
NamespacesKnown ==
    \E i \in 1..Len(inv.calls) :
        /\ inv.calls[i].resource = "Namespace" /\ inv.calls[i].ok
        /\ \A j \in (i + 1)..Len(inv.calls) : inv.calls[j].resource # "Namespace"

C10_MissingSpecDecodes ==
    /\ \A key \in DOMAIN objects :
          "spec" \notin DOMAIN objects[key] =>
             LET d == Decode(key[1], objects[key])
             IN  /\ ~d.err
                 /\ d.v.Name = GetName(objects[key])
                 /\ d.v.Namespace = GetNamespace(objects[key])
                 /\ d.v.Spec = ZeroSpec(key[1])
    /\ (inv.op = "Get" /\ inv.calls[1].ok) =>
          LET key == <<inv.args.kind, inv.args.namespace, inv.args.name>>
          IN  "spec" \notin DOMAIN objects[key] =>
                 (~inv.err /\ inv.val.Name = key[3] /\ inv.val.Spec = ZeroSpec(key[1]))

\* C10 witness: Get has returned the record of a stored catalog entry that
\* has no spec
C10_Witness ==
    /\ inv.op = "Get" /\ inv.args.kind = "AppCatalogEntry" /\ ~inv.err
    /\ "spec" \notin DOMAIN objects[<<"AppCatalogEntry", "default", "cat-x-1">>]
    /\ inv.val.Name = "cat-x-1" /\ inv.val.Spec = ZeroAppCatalogEntrySpec

\* the catalog entries a listing returns: those List does not skip
EntryListing ==
    {key \in DOMAIN objects : key[1] = "AppCatalogEntry" /\ ~Decode(key[1], objects[key]).err}

\* the listing holds an entry named <catalog>-<app>-<version> after the locator
HasEntryFor(locator) ==
    \E key \in EntryListing :
        NameIs(key[3], locator.Catalog \o <<"-">> \o locator.Name \o <<"-">> \o locator.Version)

IsSchemaURI(u) ==
    ~ParseResourceURI(u).isNil /\ ParseResourceURI(u).Type = ResourceTypeSchema

\* C16: reading a schema URI whose catalog, app and version name no entry of
\* the entry listing, the empty listing included, returns an error and no
\* schema; the error is the not-found error whenever the listing was
\* obtained.
C16_MissingSchemaIsNotFound ==
    (inv.op = "GetResource" /\ IsSchemaURI(inv.args.u)
        /\ ~HasEntryFor(ParseResourceURI(inv.args.u))) =>
            /\ inv.err
            /\ inv.val = <<>>
            /\ inv.calls[1].ok => inv.errKind = "notfound"

C16_Witness ==
    /\ inv.op = "GetResource"
    /\ inv.args.u = SchemaS \o SchemeSep \o <<"c", "a", "t", "/", "x", "/", "1">>
    /\ EntryListing = {}
    /\ Len(inv.calls) = 1 /\ inv.calls[1].ok
    /\ inv.errKind = "notfound"

\* the App stored under the namespace and name of app refers to the
\* kubeconfig secret of the cluster in spec.kubeConfig.secret
TargetsCluster(app, clusterName) ==
    LET tree == objects[<<"App", app.Namespace, app.Name>>]
    IN  /\ "spec" \in DOMAIN tree
        /\ tree["spec"].t = "map"
        /\ "kubeConfig" \in DOMAIN tree["spec"].m
        /\ "secret" \in DOMAIN tree["spec"].m["kubeConfig"].m
        /\ tree["spec"].m["kubeConfig"].m["secret"].m["name"]
             = StrV(KubeconfigSecretName(clusterName))

\* C18: every app cluster_apps returns for workload cluster c1 lives in
\* namespace workload-c1 or refers to the kubeconfig of c1; an app that
\* refers to the kubeconfig of another cluster is not returned.
C18_OnlyAppsOfTheCluster ==
    (inv.op = "cluster_apps" /\ ~inv.err) =>
        \A i \in 1..Len(inv.val) :
            \/ inv.val[i].Namespace = "workload-c1"
            \/ TargetsCluster(inv.val[i], "c1")

(***************************************************************************)
(* Claims about the organization namespaces (checked under SpecNamespaces) *)
(***************************************************************************)
\* the names, in listing order, of the namespaces labelled
\* giantswarm.io/organization=true
LabelledNames ==
    NamesOf(SelectSeq(namespaces,
                      LAMBDA ns : /\ OrganizationLabel \in DOMAIN ns.Labels
                                  /\ ns.Labels[OrganizationLabel] = "true"))

\* the names, in listing order, of the namespaces whose name starts with org-
PrefixedNames ==
    NamesOf(SelectSeq(namespaces,
                      LAMBDA ns : HasPrefix(NameChars[ns.Name], <<"o", "r", "g", "-">>)))

BelongsTo(ns, org) ==
    \/ NameChars[ns.Name] = <<"o", "r", "g", "-">> \o NameChars[org]
    \/ (OrganizationLabel \in DOMAIN ns.Labels /\ ns.Labels[OrganizationLabel] = org)
    \/ /\ HasPrefix(NameChars[ns.Name], <<"w", "o", "r", "k", "l", "o", "a", "d", "-">>)
       /\ "giantswarm.io/owner" \in DOMAIN ns.Labels
       /\ ns.Labels["giantswarm.io/owner"] = org

\* C21: GetNamespacesByOrganization(org) returns, in listing order and each
\* once, exactly the namespaces that are org-<org>, carry the organization
\* label with value org, or have the workload- prefix and the owner label
\* with value org.
C21_NamespacesOfOrganization ==
    (inv.op = "GetNamespacesByOrganization" /\ ~inv.err) =>
        inv.val = NamesOf(SelectSeq(namespaces,
                                    LAMBDA ns : BelongsTo(ns, inv.args.organization)))

(***************************************************************************)
(* Claims about cluster_list (checked under SpecClusters)                  *)
(***************************************************************************)
\* the status of the stored cluster has phase Provisioned and both
\* infrastructureReady and controlPlaneReady true
TreeIsReady(tree) ==
    /\ "status" \in DOMAIN tree
    /\ tree["status"].m["phase"] = StrV("Provisioned")
    /\ tree["status"].m["infrastructureReady"] = BoolV(TRUE)
    /\ tree["status"].m["controlPlaneReady"] = BoolV(TRUE)

\* the calls of the invocation that failed
FailedCalls == {i \in 1..Len(inv.calls) : ~inv.calls[i].ok}

\* what the invocation would have listed without ready-only
Unfiltered ==
    cluster_list(namespaces, objects, FailedCalls, [inv.args EXCEPT !.readyOnly = FALSE]).val

\* C22: cluster_list reports a cluster ready exactly when its status has
\* phase Provisioned and infrastructureReady and controlPlaneReady true, and
\* with ready-only it lists exactly the ready clusters of the listing
\* without ready-only, in the same order.
C22_ReadyOnlyKeepsReadyClusters ==
    (inv.op = "cluster_list" /\ ~inv.err) =>
        /\ \A i \in 1..Len(inv.val) :
              inv.val[i].Ready
                <=> TreeIsReady(objects[<<"Cluster", inv.val[i].Namespace, inv.val[i].Name>>])
        /\ inv.args.readyOnly => inv.val = SelectSeq(Unfiltered, LAMBDA line : line.Ready)

C22_Witness ==
    /\ inv.op = "cluster_list" /\ ~inv.err
    /\ inv.args.readyOnly /\ inv.args.provider = ""
    /\ Len(Unfiltered) = 3
    /\ ~Unfiltered[2].Ready /\ Unfiltered[2].Status = "Provisioned"
    /\ Len(inv.val) = 2
    /\ inv.val[1].Name = "c1" /\ inv.val[2].Name = "c3"

\* the kind of the infrastructure reference of the stored cluster, "" for none
InfrastructureKind(tree) ==
    IF "infrastructureRef" \in DOMAIN tree["spec"].m
    THEN tree["spec"].m["infrastructureRef"].m["kind"].s ELSE ""

\* the provider the stored cluster is expected to be listed with
ExpectedProvider(tree) ==
    LET labels == tree["metadata"].m["labels"].m
    IN  IF "cluster.x-k8s.io/provider" \in DOMAIN labels
        THEN labels["cluster.x-k8s.io/provider"].s
        ELSE IF InfrastructureKind(tree) = "AWSCluster" THEN "aws"
        ELSE "unknown"

\* what the invocation would have listed without a provider
AnyProvider ==
    cluster_list(namespaces, objects, FailedCalls, [inv.args EXCEPT !.provider = ""]).val

\* C30: the provider listed for a cluster is its provider label when it has
\* one, otherwise the kind of its infrastructure reference without the
\* Cluster suffix and in lower case (AWSCluster gives aws), otherwise
\* unknown; cluster_list with provider aws lists every cluster whose
\* infrastructure kind is AWSCluster.
C30_ProviderFromLabelOrKind ==
    (inv.op = "cluster_list" /\ ~inv.err) =>
        /\ \A i \in 1..Len(inv.val) :
              inv.val[i].Provider
                = ExpectedProvider(objects[<<"Cluster", inv.val[i].Namespace, inv.val[i].Name>>])
        /\ inv.args.provider = "aws" =>
              \A i \in 1..Len(AnyProvider) :
                  InfrastructureKind(objects[<<"Cluster", AnyProvider[i].Namespace,
                                               AnyProvider[i].Name>>]) = "AWSCluster"
                    => \E j \in 1..Len(inv.val) : inv.val[j].Name = AnyProvider[i].Name

(***************************************************************************)
(* Claims about app_create (checked under SpecCreate)                      *)
(***************************************************************************)
\* C19: the App that a successful app_create with a cluster argument stores
\* is not in-cluster (spec.kubeConfig.inCluster is false) and refers to the
\* kubeconfig of the named cluster, whatever the in-cluster argument is.
C19_ClusterArgumentTargetsCluster ==
    (inv.op = "app_create" /\ ~inv.err /\ "cluster" \in DOMAIN inv.args) =>
        /\ objects[NewAppKey]["spec"].m["kubeConfig"].m["inCluster"] = BoolV(FALSE)
        /\ TargetsCluster(inv.val, inv.args["cluster"].s)

(***************************************************************************)
(* Claims about app_update (checked under SpecUpdate)                      *)
(***************************************************************************)
\* the map m without the key k
Without(m, k) == [x \in DOMAIN m \ {k} |-> m[x]]

\* the map m without the ConfigMap reference of its AppConfig under k
WithoutConfigMap(m, k) ==
    IF Is(m, k, "map") THEN Put(m, k, MapV(Without(m[k].m, "configMap"))) ELSE m

\* the labels and the spec of a stored App, with the fields left out that
\* the arguments of an app_update name
Untouched(tree, args) ==
    LET spec0 == IF Is(tree, "spec", "map") THEN tree["spec"].m ELSE <<>>
        spec1 == IF getStringArg(args, "version") # "" THEN Without(spec0, "version") ELSE spec0
        spec2 == IF getStringArg(args, "config-name") # ""
                 THEN WithoutConfigMap(spec1, "config") ELSE spec1
        spec3 == IF getStringArg(args, "user-config-name") # ""
                 THEN WithoutConfigMap(spec2, "userConfig") ELSE spec2
    IN  [labels |-> GetLabels(tree), spec |-> spec3]

\* C24: a successful app_update leaves the labels of the stored App and
\* every field of its spec that no argument names as they were
C24_UpdateChangesOnlyNamedFields ==
    [][(inv = NoInvocation /\ inv'.op = "app_update" /\ ~inv'.err) =>
         LET key == <<"App", inv'.args["namespace"].s, inv'.args["name"].s>>
         IN  Untouched(objects'[key], inv'.args) = Untouched(objects[key], inv'.args)]_vars

(***************************************************************************)
(* Claims about the mappers (checked under SpecDecode)                     *)
(***************************************************************************)
\* the known fields of the typed records, as their struct declarations give
\* them: the field, its key in the tree and its type
Field(name, key, type) == [name |-> name, key |-> key, type |-> type]
TStr == [k |-> "str"]
TBool == [k |-> "bool"]
TInt32 == [k |-> "int32"]
TTime == [k |-> "time"]
TStrings == [k |-> "strings"]
TStruct(fields) == [k |-> "struct", fields |-> fields]
TPointer(fields) == [k |-> "pointer", fields |-> fields]
TStructs(fields) == [k |-> "structs", fields |-> fields]

TReference == TPointer(<<Field("Name", "name", TStr), Field("Namespace", "namespace", TStr)>>)
TAppConfig == TPointer(<<Field("ConfigMap", "configMap", TReference),
                         Field("Secret", "secret", TReference)>>)
TNetworkRanges == TPointer(<<Field("CIDRBlocks", "cidrBlocks", TStrings)>>)
TObjectReference ==
    TPointer(<<Field("APIVersion", "apiVersion", TStr), Field("Kind", "kind", TStr),
               Field("Name", "name", TStr), Field("Namespace", "namespace", TStr)>>)

SpecType(kind) ==
    CASE kind = "App" ->
           TStruct(<<Field("Catalog", "catalog", TStr), Field("Name", "name", TStr),
                     Field("Namespace", "namespace", TStr), Field("Version", "version", TStr),
                     Field("KubeConfig", "kubeConfig",
                           TStruct(<<Field("InCluster", "inCluster", TBool),
                                     Field("Secret", "secret", TReference)>>)),
                     Field("Config", "config", TAppConfig),
                     Field("UserConfig", "userConfig", TAppConfig)>>)
      [] kind = "Catalog" ->
           TStruct(<<Field("Title", "title", TStr), Field("Description", "description", TStr),
                     Field("LogoURL", "logoURL", TStr),
                     Field("Storage", "storage",
                           TStruct(<<Field("Type", "type", TStr), Field("URL", "URL", TStr)>>)),
                     Field("Repositories", "repositories",
                           TStructs(<<Field("Type", "type", TStr), Field("URL", "URL", TStr)>>)),
                     Field("Config", "config", TAppConfig)>>)
      [] kind = "AppCatalogEntry" ->
           TStruct(<<Field("AppName", "appName", TStr), Field("AppVersion", "appVersion", TStr),
                     Field("Catalog", "catalog",
                           TStruct(<<Field("Name", "name", TStr),
                                     Field("Namespace", "namespace", TStr)>>)),
                     Field("Chart", "chart",
                           TStruct(<<Field("APIVersion", "apiVersion", TStr),
                                     Field("AppVersion", "appVersion", TStr),
                                     Field("Description", "description", TStr),
                                     Field("Home", "home", TStr), Field("Icon", "icon", TStr),
                                     Field("Keywords", "keywords", TStrings),
                                     Field("Name", "name", TStr),
                                     Field("Sources", "sources", TStrings),
                                     Field("URLs", "urls", TStrings),
                                     Field("Version", "version", TStr)>>)),
                     Field("DateCreated", "dateCreated", TTime),
                     Field("DateUpdated", "dateUpdated", TTime),
                     Field("Restrictions", "restrictions",
                           TPointer(<<Field("ClusterSingleton", "clusterSingleton", TBool),
                                      Field("NamespaceSingleton", "namespaceSingleton", TBool),
                                      Field("FixedNamespace", "fixedNamespace", TStr),
                                      Field("GpuInstances", "gpuInstances", TBool)>>))>>)
      [] kind = "Cluster" ->
           TStruct(<<Field("ClusterNetwork", "clusterNetwork",
                           TPointer(<<Field("APIServerPort", "apiServerPort", TInt32),
                                      Field("Services", "services", TNetworkRanges),
                                      Field("Pods", "pods", TNetworkRanges)>>)),
                     Field("InfrastructureRef", "infrastructureRef", TObjectReference),
                     Field("ControlPlaneRef", "controlPlaneRef", TObjectReference)>>)

StatusType(kind) ==
    CASE kind = "App" ->
           TStruct(<<Field("AppVersion", "appVersion", TStr), Field("Version", "version", TStr),
                     Field("Release", "release",
                           TStruct(<<Field("LastDeployed", "lastDeployed", TStr),
                                     Field("Status", "status", TStr)>>))>>)
      [] kind = "Cluster" ->
           TStruct(<<Field("Phase", "phase", TStr),
                     Field("InfrastructureReady", "infrastructureReady", TBool),
                     Field("ControlPlaneReady", "controlPlaneReady", TBool),
                     Field("Conditions", "conditions",
                           TStructs(<<Field("Type", "type", TStr), Field("Status", "status", TStr),
                                      Field("LastTransitionTime", "lastTransitionTime", TStr),
                                      Field("Reason", "reason", TStr),
                                      Field("Message", "message", TStr)>>))>>)

\* the value a field of the given type is to have when read from key of map
\* m: the value of the tree when it is there with the type of the field, the
\* zero value of the type otherwise
RECURSIVE Expected(_, _, _)
Expected(type, m, key) ==
    LET has(t) == key \in DOMAIN m /\ m[key].t = t
        struct(sub) ==
            [n \in {type.fields[i].name : i \in 1..Len(type.fields)} |->
               LET f == CHOOSE f \in {type.fields[i] : i \in 1..Len(type.fields)} : f.name = n
               IN  Expected(f.type, sub, f.key)]
        strings(l) ==
            LET at == SelectSeq([i \in 1..Len(l) |-> i], LAMBDA i : l[i].t = "str")
            IN  [j \in 1..Len(at) |-> l[at[j]].s]
        structs(l) ==
            LET at == SelectSeq([i \in 1..Len(l) |-> i], LAMBDA i : l[i].t = "map")
            IN  [j \in 1..Len(at) |-> Expected(TStruct(type.fields), [it |-> l[at[j]]], "it")]
    IN  CASE type.k = "str" -> IF has("str") THEN m[key].s ELSE ""
          [] type.k = "bool" -> IF has("bool") THEN m[key].b ELSE FALSE
          [] type.k = "int32" ->
               IF has("int")
               THEN [nil |-> FALSE,
                     port |-> IF m[key].i.hi = 0 THEN m[key].i.lo ELSE m[key].i]
               ELSE Nil
          [] type.k = "time" ->
               IF has("str") /\ m[key].s \in DOMAIN RFC3339Times
               THEN [nil |-> FALSE, unix |-> RFC3339Times[m[key].s]] ELSE Nil
          [] type.k = "strings" -> IF has("list") THEN strings(m[key].l) ELSE <<>>
          [] type.k = "struct" -> struct(IF has("map") THEN m[key].m ELSE <<>>)
          [] type.k = "pointer" ->
               IF has("map") THEN [nil |-> FALSE] @@ struct(m[key].m) ELSE Nil
          [] type.k = "structs" -> IF has("list") THEN structs(m[key].l) ELSE <<>>

\* C11 (as claimed): decoding a tree whose spec is a map returns no error,
\* and every known field of Spec and Status has the value of the tree when it
\* is there with the expected type and the zero value otherwise; a date that
\* does not parse is nil.
C11_KnownFieldsDecoded ==
    fpc = "decoded" =>
        /\ ~res.err
        /\ res.v.Spec = Expected(SpecType(arg.kind), arg.obj, "spec")
        /\ arg.kind \in {"App", "Cluster"} =>
              res.v.Status = Expected(StatusType(arg.kind), arg.obj, "status")

\* the optional sub-structures (pointers) and optional lists and maps
\* (collections) of each typed record, with the place of each in the tree
Optional(field, key, type) == [field |-> field, key |-> key, type |-> type]
OptionalFields(kind) ==
    CASE kind = "App" ->
           {Optional(<<"Spec", c[1]>>, <<"spec", c[2]>>, "pointer") :
              c \in {<<"Config", "config">>, <<"UserConfig", "userConfig">>}}
           \cup {Optional(<<"Spec", c[1], r[1]>>, <<"spec", c[2], r[2]>>, "pointer") :
                   c \in {<<"Config", "config">>, <<"UserConfig", "userConfig">>},
                   r \in {<<"ConfigMap", "configMap">>, <<"Secret", "secret">>}}
      [] kind = "Catalog" ->
           {Optional(<<"Labels">>, <<"metadata", "labels">>, "collection"),
            Optional(<<"Spec", "Repositories">>, <<"spec", "repositories">>, "collection"),
            Optional(<<"Spec", "Config">>, <<"spec", "config">>, "pointer"),
            Optional(<<"Spec", "Config", "ConfigMap">>, <<"spec", "config", "configMap">>, "pointer"),
            Optional(<<"Spec", "Config", "Secret">>, <<"spec", "config", "secret">>, "pointer")}
      [] kind = "AppCatalogEntry" ->
           {Optional(<<"Labels">>, <<"metadata", "labels">>, "collection"),
            Optional(<<"Annotations">>, <<"metadata", "annotations">>, "collection"),
            Optional(<<"Spec", "Chart", "Keywords">>, <<"spec", "chart", "keywords">>, "collection"),
            Optional(<<"Spec", "Chart", "Sources">>, <<"spec", "chart", "sources">>, "collection"),
            Optional(<<"Spec", "Chart", "URLs">>, <<"spec", "chart", "urls">>, "collection"),
            Optional(<<"Spec", "DateCreated">>, <<"spec", "dateCreated">>, "pointer"),
            Optional(<<"Spec", "DateUpdated">>, <<"spec", "dateUpdated">>, "pointer"),
            Optional(<<"Spec", "Restrictions">>, <<"spec", "restrictions">>, "pointer")}
      [] kind = "Cluster" ->
           {Optional(<<"Labels">>, <<"metadata", "labels">>, "collection"),
            Optional(<<"Spec", "ClusterNetwork">>, <<"spec", "clusterNetwork">>, "pointer"),
            Optional(<<"Spec", "ClusterNetwork", "APIServerPort">>,
                     <<"spec", "clusterNetwork", "apiServerPort">>, "pointer"),
            Optional(<<"Spec", "InfrastructureRef">>, <<"spec", "infrastructureRef">>, "pointer"),
            Optional(<<"Spec", "ControlPlaneRef">>, <<"spec", "controlPlaneRef">>, "pointer")}
           \cup {Optional(<<"Spec", "ClusterNetwork", r[1]>>,
                          <<"spec", "clusterNetwork", r[2]>>, "pointer") :
                   r \in {<<"Services", "services">>, <<"Pods", "pods">>}}
           \cup {Optional(<<"Spec", "ClusterNetwork", r[1], "CIDRBlocks">>,
                          <<"spec", "clusterNetwork", r[2], "cidrBlocks">>, "collection") :
                   r \in {<<"Services", "services">>, <<"Pods", "pods">>}}

\* the field at path of a record is absent: nil, or empty for a collection,
\* or inside a sub-structure that is nil
RECURSIVE RecAbsent(_, _, _)
RecAbsent(rec, path, type) ==
    IF path = <<>>
    THEN (IF type = "pointer" THEN rec = Nil ELSE DOMAIN rec = {})
    ELSE rec = Nil \/ RecAbsent(rec[Head(path)], Tail(path), type)

\* the map of a tree has a key at path
RECURSIVE TreeHas(_, _)
TreeHas(m, path) ==
    /\ Head(path) \in DOMAIN m
    /\ Len(path) > 1 => (m[Head(path)].t = "map" /\ TreeHas(m[Head(path)].m, Tail(path)))

\* a node that is null or an empty map or list
IsEmptyNode(n) ==
    \/ n.t = "null"
    \/ (n.t = "map" /\ DOMAIN n.m = {})
    \/ (n.t = "strmap" /\ DOMAIN n.sm = {})
    \/ (n.t = "list" /\ Len(n.l) = 0)
    \/ (n.t = "strings" /\ Len(n.ss) = 0)

\* no key of the map of a tree, at any depth, holds an empty node
RECURSIVE NoEmptyValue(_)
NoEmptyValue(m) ==
    \A k \in DOMAIN m :
        /\ ~IsEmptyNode(m[k])
        /\ m[k].t = "map" => NoEmptyValue(m[k].m)
        /\ m[k].t = "list" =>
              \A i \in 1..Len(m[k].l) : m[k].l[i].t = "map" => NoEmptyValue(m[k].l[i].m)

\* C12 (as claimed): in the tree ToUnstructured builds, an optional
\* sub-structure or list that is absent from the record has no key, and no
\* key holds a null, an empty map or an empty list.
C12_AbsentOptionalsOmitted ==
    fpc = "encoded" =>
        /\ \A o \in OptionalFields(arg.kind) :
              RecAbsent(res.v, o.field, o.type) => ~TreeHas(res.tree, o.key)
        /\ NoEmptyValue(res.tree)

\* the tree carries spec.restrictions.clusterSingleton as the boolean true
TreeIsClusterSingleton(obj) ==
    LET sp == obj["spec"].m
    IN  /\ "restrictions" \in DOMAIN sp
        /\ sp["restrictions"].t = "map"
        /\ "clusterSingleton" \in DOMAIN sp["restrictions"].m
        /\ sp["restrictions"].m["clusterSingleton"] = BoolV(TRUE)

\* C17: IsClusterApp() of an entry decoded from a tree is true exactly when
\* spec.restrictions.clusterSingleton of the tree is the boolean true, and
\* false when restrictions or clusterSingleton is absent or clusterSingleton
\* is false.
C17_IsClusterAppIffSingleton ==
    fpc = "asked" => (~res.err /\ (res.isClusterApp <=> TreeIsClusterSingleton(arg.obj)))

C17_Witness ==
    /\ fpc = "asked"
    /\ TreeIsClusterSingleton(arg.obj)
    /\ res.isClusterApp

(***************************************************************************)
(* Claims about the configuration values (checked under SpecValues)        *)
(***************************************************************************)
Defines(config, k) == config # Nil /\ k \in DOMAIN config.Data

\* the last of the configs that defines k
LastWriter(configs, k) ==
    CHOOSE i \in 1..Len(configs) :
        Defines(configs[i], k) /\ \A j \in (i + 1)..Len(configs) : ~Defines(configs[j], k)

\* data holds, for every key some config defines, the value of the last
\* config that defines it, and no other key
LastWriterWins(data, configs) ==
    /\ DOMAIN data = {k \in ValueKeys : \E i \in 1..Len(configs) : Defines(configs[i], k)}
    /\ \A k \in DOMAIN data : data[k] = configs[LastWriter(configs, k)].Data[k]

\* C13: after a.MergeWith(b), and in the result of MergeConfigs taking its
\* arguments left to right, every key holds the value of the last config that
\* defines it, no key appears that no config defines, and merging a config
\* without keys leaves the data as it was.
C13_MergeLastWriterWins ==
    fpc = "done" =>
        /\ res.op = "MergeWith" =>
              /\ LastWriterWins(res.out.Data, <<arg.a, arg.b>>)
              /\ DOMAIN arg.b.Data = {} => res.out.Data = arg.a.Data
        /\ res.op = "MergeConfigs" =>
              /\ LastWriterWins(res.out.Data, <<arg.a, arg.b, arg.c>>)
              /\ (~Defines(arg.b, KeyK) /\ ~Defines(arg.b, KeyJ) /\ ~Defines(arg.c, KeyK))
                    => res.out.Data = arg.a.Data

C13_Witness ==
    /\ fpc = "done"
    /\ res.op = "MergeConfigs"
    /\ Defines(arg.a, KeyK) /\ Defines(arg.b, KeyK) /\ Defines(arg.c, KeyK)
    /\ Defines(arg.a, KeyJ) /\ ~Defines(arg.b, KeyJ)
    /\ arg.a.Data[KeyK] # arg.c.Data[KeyK] /\ arg.b.Data[KeyK] # arg.c.Data[KeyK]
    /\ res.out.Data[KeyK] = arg.c.Data[KeyK]
    /\ res.out.Data[KeyJ] = arg.a.Data[KeyJ]

\* C14: a.Diff(b) reports as Added exactly the keys only b has, as Removed
\* exactly the keys only a has and as Modified exactly the keys both have with
\* different values, with b's value as the new one; no key is in two of the
\* three, and HasChanges is true exactly when the data of a and b differ.
C14_DiffClassifiesKeys ==
    (fpc = "done" /\ res.op = "Diff") =>
        LET A == arg.a.Data
            B == arg.b.Data
            d == res.out
        IN  /\ DOMAIN d.Added = DOMAIN B \ DOMAIN A
            /\ DOMAIN d.Removed = DOMAIN A \ DOMAIN B
            /\ DOMAIN d.Modified = {k \in DOMAIN A \cap DOMAIN B : A[k] # B[k]}
            /\ \A k \in DOMAIN d.Modified : d.Modified[k].New = B[k]
            /\ DOMAIN d.Added \cap DOMAIN d.Removed = {}
            /\ DOMAIN d.Added \cap DOMAIN d.Modified = {}
            /\ DOMAIN d.Removed \cap DOMAIN d.Modified = {}
            /\ res.changes <=>
                  (DOMAIN A # DOMAIN B \/ \E k \in DOMAIN A \cap DOMAIN B : A[k] # B[k])

C14_Witness ==
    /\ fpc = "done"
    /\ res.op = "Diff"
    /\ DOMAIN res.out.Modified = {KeyK}
    /\ DOMAIN res.out.Removed = {KeyJ}
    /\ res.out.Modified[KeyK].New = arg.b.Data[KeyK]
    /\ res.out.Modified[KeyK].Old # res.out.Modified[KeyK].New
    /\ res.changes

SameMap(m1, m2) == DOMAIN m1 = DOMAIN m2 /\ \A k \in DOMAIN m1 : m1[k] = m2[k]

\* C15: NewConfigFromSecret(c.ToSecret()) has the keys of c with the values
\* of c, and the name, the namespace and the labels of c.
C15_SecretRoundTrip ==
    (fpc = "done" /\ res.op = "ToSecret") =>
        /\ SameMap(res.out.Data, arg.a.Data)
        /\ res.out.Name = arg.a.Name
        /\ res.out.Namespace = arg.a.Namespace
        /\ SameMap(res.out.Labels, arg.a.Labels)

C15_Witness ==
    /\ fpc = "done"
    /\ res.op = "ToSecret"
    /\ arg.a.Type = "configmap"
    /\ DOMAIN arg.a.Data = {KeyK, KeyJ}
    /\ arg.a.Data[KeyK] = <<>>
    /\ arg.a.Data[KeyJ] = <<"w", "x">>
    /\ DOMAIN arg.a.Labels # {}
    /\ res.out.Data[KeyJ] = <<"w", "x">>

(***************************************************************************)
(* Claims about concurrent config.set (checked under SpecInterleave)       *)
(***************************************************************************)
\* the object both invocations address
SetTarget == <<ConfigTypeOf(inv[1].args.type), NsN, NameC>>

\* invocation p made its Get before invocation q wrote: the configuration p
\* holds, the one it read with its own key set, does not have the key of q
ReadBeforeWriteOf(p, q) ==
    inv[p].config = <<>> \/ WrittenKey(q) \notin DOMAIN inv[p].config.Data

\* C23: when two config.set invocations on one object have each read it
\* before the other wrote and both have returned, one of them returned an
\* error or the stored object holds the keys of both
C23_InterleavedSetsKeepBothKeys ==
    (/\ \A p \in Procs : inv[p].pc = "done"
     /\ ReadBeforeWriteOf(1, 2) /\ ReadBeforeWriteOf(2, 1))
    => \/ \E p \in Procs : inv[p].err
       \/ /\ SetTarget \in DOMAIN cfg
          /\ {WrittenKey(1), WrittenKey(2)} \subseteq DOMAIN cfg[SetTarget].Data

(***************************************************************************)
(* Claims about Validate (checked under SpecValidate)                      *)
(***************************************************************************)
\* the keys a schema lists, as required or as optional
ListedKeys(schema) == KeysIn(schema.RequiredKeys) \cup KeysIn(schema.OptionalKeys)

\* what the schema asks of the data
Conforms(data, schema) ==
    /\ \A key \in KeysIn(schema.RequiredKeys) : key \in DOMAIN data
    /\ ListedKeys(schema) # {} => \A key \in DOMAIN data : key \in ListedKeys(schema)
    /\ \A key \in DOMAIN data \cap DOMAIN schema.KeyPatterns :
          LET m == MatchString(schema.KeyPatterns[key], data[key])
          IN  ~m.err /\ m.matched

\* C26: Validate returns Valid exactly when every required key is present,
\* every key of the data is listed whenever the schema lists keys, and every
\* value with a pattern matches it; a listed key is never reported unexpected
C26_ValidIffConforms ==
    (fpc = "done" /\ res.op = "Validate") =>
        /\ res.out.Valid <=> Conforms(arg.config.Data, arg.schema)
        /\ \A key \in ListedKeys(arg.schema) : <<"unexpected key", key>> \notin res.out.Errors

(***************************************************************************)
(* Claims about SortByDate (checked under SpecSort)                        *)
(***************************************************************************)
\* list b holds the elements of list a, each as often as a does
IsPermutation(a, b) ==
    /\ Len(a) = Len(b)
    /\ \A x \in {a[i] : i \in DOMAIN a} :
          Cardinality({i \in DOMAIN a : a[i] = x}) = Cardinality({i \in DOMAIN b : b[i] = x})

\* no dated entry of the list comes after a dated entry that is older
NewestFirst(list) ==
    \A i, j \in DOMAIN list :
        (i < j /\ EffectiveDate(list[i]) # Nil /\ EffectiveDate(list[j]) # Nil)
        => ~Before(EffectiveDate(list[i]), EffectiveDate(list[j]))

\* C28: SortByDate returns a permutation of its input in which, of any two
\* entries that both have a date, the newer one comes first
C28_SortedNewestFirst ==
    (fpc = "done" /\ res.op = "SortByDate") =>
        IsPermutation(arg, res.out) /\ NewestFirst(res.out)

(***************************************************************************)
(* Claims about the listed resources (checked under SpecResources)         *)
(***************************************************************************)
\* C27: every URI that ListResources returns is accepted by ParseResourceURI,
\* and a schema URI it returned, read through GetResource while the server
\* answers, is found
C27_ListedURIsResolve ==
    /\ (inv.op = "ListResources" /\ ~inv.err) =>
           \A i \in DOMAIN inv.val : ~ParseResourceURI(inv.val[i].URI).isNil
    /\ (inv.op = "GetResource" /\ IsSchemaURI(inv.args.u) /\ inv.errKind # "api") =>
           ~inv.err /\ HasEntryFor(ParseResourceURI(inv.args.u))

\* the catalog entries of app name in the catalog catalogName
EntriesOfApp(catalogName, name) ==
    {key \in EntryListing :
        LET entry == Decode(key[1], objects[key]).v
        IN  NameChars[entry.Spec.Catalog.Name] = catalogName /\ NameChars[entry.Spec.AppName] = name}

\* C29: the changelog of an app in a catalog has one entry for each catalog
\* entry of that app in that catalog, with its chart version, and no other
C29_ChangelogOfTheApp ==
    (inv.op = "GetResource" /\ ~inv.err
        /\ ParseResourceURI(inv.args.u).Type = ResourceTypeChangelog) =>
        LET ruri == ParseResourceURI(inv.args.u)
            own == EntriesOfApp(ruri.Catalog, ruri.Name)
        IN  /\ Len(inv.val.Entries) = Cardinality(own)
            /\ {inv.val.Entries[i].Version : i \in DOMAIN inv.val.Entries}
                 = {Decode(key[1], objects[key]).v.Spec.Chart.Version : key \in own}

(***************************************************************************)
(* Claims about the config tools (checked under SpecConfig)                *)
(***************************************************************************)
\* C4 (as claimed): an invocation that ends with an argument-validation error
\* has issued no API call.
C4_ValidationBeforeAPICalls ==
    inv.errKind = "validation" => inv.calls = <<>>

\* the verbs of the API calls an invocation issued
VerbsOf(calls) == {calls[i].verb : i \in DOMAIN calls}

\* C25: a config.set invocation issues a Create only when create is set and
\* the target does not exist, an Update only when the target exists, and with
\* create unset and the target missing it fails and leaves the store as it was
C25_CreateOnlyWhenMissing ==
    [][(inv = NoInvocation /\ inv'.op = "config.set") =>
         LET target == <<ConfigTypeOf(inv'.args.type), NsN, NameC>>
         IN  /\ "create" \in VerbsOf(inv'.calls) =>
                    inv'.args.create /\ target \notin DOMAIN cfg
             /\ "update" \in VerbsOf(inv'.calls) => target \in DOMAIN cfg
             /\ (~inv'.args.create /\ target \notin DOMAIN cfg) =>
                    inv'.err /\ cfg' = cfg]_vars

====
